---------------------------- MODULE Spec2Model ----------------------------
(***************************************************************************)
(* A model of the query pipeline of flask-app/app.py                       *)
(* (EnhancedVectorizedRAGPipeline.process_query and the helpers it calls). *)
(*                                                                         *)
(* Text is a sequence of one-character strings, so that containment,       *)
(* lower-casing and the regular-expression searches of the code are        *)
(* computed character by character.  Similarities are integers in          *)
(* thousandths (0.95 is 950) and confidence scores are integers in         *)
(* thousandths (7.5 is 7500).                                              *)
(***************************************************************************)
EXTENDS Integers, Sequences, FiniteSets, TLC

--------------------------------------------------------------------------
(* Bounds of the model *)

\* the longest retrieval result list the search service answers with
MaxChunks == 2

--------------------------------------------------------------------------
(* Text helpers: str.lower(), the "in" operator on strings, str.split() *)

LowerChar(c) ==
    LET upper == <<"A","B","C","D","E","F","G","H","I","J","K","L","M","N","O","P","Q","R","S","T","U","V","W","X","Y","Z">>
        lower == <<"a","b","c","d","e","f","g","h","i","j","k","l","m","n","o","p","q","r","s","t","u","v","w","x","y","z">>
    IN  IF \E i \in 1..Len(upper) : upper[i] = c
        THEN lower[CHOOSE i \in 1..Len(upper) : upper[i] = c]
        ELSE c

\* str.lower()
Lower(s) == [i \in 1..Len(s) |-> LowerChar(s[i])]

\* p occurs in s starting at index i (1-based)
HasAt(s, i, p) ==
    /\ i >= 1
    /\ i + Len(p) - 1 <= Len(s)
    /\ \A k \in 1..Len(p) : s[i + k - 1] = p[k]

\* the Python expression  p in s  on two strings
Contains(s, p) == \E i \in 1..(Len(s) - Len(p) + 1) : HasAt(s, i, p)

IsSpace(c) == c \in {" ", "\n", "\t", "\r"}
IsDigit(c) == c \in {"0", "1", "2", "3", "4", "5", "6", "7", "8", "9"}

\* len(s.split()): the number of maximal runs of non-whitespace characters
WordCount(s) ==
    Cardinality({i \in 1..Len(s) :
        /\ ~IsSpace(s[i])
        /\ (i = 1 \/ IsSpace(s[i - 1]))})

Min(a, b) == IF a <= b THEN a ELSE b
Max(a, b) == IF a >= b THEN a ELSE b

RECURSIVE SumSeq(_)
SumSeq(s) == IF s = <<>> THEN 0 ELSE Head(s) + SumSeq(Tail(s))

\* n / d rounded to the nearest integer, ties to the even neighbour
\* (round() and the "%.3f" format on a value that is exact); n >= 0, d > 0
RoundDiv(n, d) ==
    LET q == n \div d
        r == n % d
    IN  IF 2 * r < d THEN q
        ELSE IF 2 * r > d THEN q + 1
        ELSE IF q % 2 = 0 THEN q ELSE q + 1

\* n / d rounded to the nearest integer as a set of outcomes: a tie is decided by the
\* binary floating-point error of the operands, so either neighbour can result
RoundDivSet(n, d) ==
    LET q == n \div d
        r == n % d
    IN  IF 2 * r < d THEN {q}
        ELSE IF 2 * r > d THEN {q + 1}
        ELSE {q, q + 1}

--------------------------------------------------------------------------
(* Program constants *)

\* SYSTEM_FILES
SYSTEM_FILES == { <<"a","d","m","i","n">>, <<"s","y","s","t","e","m">>, <<"d","e","f","a","u","l","t">>, <<"c","o","n","f","i","g">>, <<"h","a","a","g">> }

\* the fixed text _format_search_results returns for an empty result
NoContextSentinel == <<"N","o"," ","r","e","l","e","v","a","n","t"," ","c","o","n","t","e","x","t"," ","f","o","u","n","d"," ","i","n"," ","t","h","e"," ","p","r","e","b","u","i","l","t"," ","v","e","c","t","o","r"," ","d","a","t","a","b","a","s","e",".">>

\* the default min_similarity of _prepare_search_options, in thousandths
DefaultMinSimilarity == 250

\* the default top_k of the two modes
FastTopK == 3
DetailedTopK == 5

\* history turns handed to _format_conversation_history by the two modes
FastHistoryTurns == 3
DetailedHistoryTurns == 5

\* confidence values, in thousandths
ErrorConfidence == 1000
EmptyConfidence == 3000
MinConfidence == 1000
MaxConfidence == 10000

--------------------------------------------------------------------------
(* Exceptions and the values a function returns or raises *)

Exc(type, msg) == [type |-> type, msg |-> msg]

Ret(v) == [raised |-> FALSE, value |-> v]
Raise(e) == [raised |-> TRUE, exc |-> e]

\* the exceptions the pipeline can raise, with the text str(e) gives
Errors ==
    [not_iterable_int |-> Exc("TypeError", <<"'","i","n","t","'"," ","o","b","j","e","c","t"," ","i","s"," ","n","o","t"," ","i","t","e","r","a","b","l","e">>),
     not_subscriptable_int |-> Exc("TypeError", <<"'","i","n","t","'"," ","o","b","j","e","c","t"," ","i","s"," ","n","o","t"," ","s","u","b","s","c","r","i","p","t","a","b","l","e">>),
     not_iterable_none |-> Exc("TypeError", <<"'","N","o","n","e","T","y","p","e","'"," ","o","b","j","e","c","t"," ","i","s"," ","n","o","t"," ","i","t","e","r","a","b","l","e">>),
     key_avg_similarity |-> Exc("KeyError", <<"'","a","v","g","_","s","i","m","i","l","a","r","i","t","y","'">>),
     no_copy |-> Exc("AttributeError", <<"'","s","t","r","'"," ","o","b","j","e","c","t"," ","h","a","s"," ","n","o"," ","a","t","t","r","i","b","u","t","e"," ","'","c","o","p","y","'">>),
     no_get |-> Exc("AttributeError", <<"'","l","i","s","t","'"," ","o","b","j","e","c","t"," ","h","a","s"," ","n","o"," ","a","t","t","r","i","b","u","t","e"," ","'","g","e","t","'">>),
     infinity |-> Exc("OverflowError", <<"c","a","n","n","o","t"," ","c","o","n","v","e","r","t"," ","f","l","o","a","t"," ","i","n","f","i","n","i","t","y"," ","t","o"," ","i","n","t","e","g","e","r">>)]

--------------------------------------------------------------------------
(* Retrieved chunks.  A chunk is a record of the fields the pipeline reads:  *)
(* filename (<<>> when the key is absent), similarity, quality_score.       *)

FileNames == { <<"c","o","n","f","i","g",".","j","s","o","n">>, <<"n","o","t","e","s",".","t","x","t">>, <<"a",".","t","x","t">> }

Chunk(f, s, q) == [filename |-> f, similarity |-> s, quality_score |-> q]

ChunkPool ==
    { Chunk(<<"c","o","n","f","i","g",".","j","s","o","n">>, 500, "good"),
      Chunk(<<"n","o","t","e","s",".","t","x","t">>, 950, "excellent"),
      Chunk(<<"n","o","t","e","s",".","t","x","t">>, 300, "fair"),
      Chunk(<<"a",".","t","x","t">>, 900, "high"),
      Chunk(<<>>, 200, "unknown") }

RECURSIVE SeqsUpTo(_, _)
SeqsUpTo(S, n) ==
    IF n = 0 THEN { <<>> }
    ELSE LET shorter == SeqsUpTo(S, n - 1)
         IN  shorter \cup { Append(s, x) : s \in { t \in shorter : Len(t) = n - 1 }, x \in S }

\* What _semantic_search hands back: a list of chunks, or - when the body's
\* "results" value is null or a number - that value itself.
ResultList(items) == [kind |-> "list", items |-> items]
ResultNull == [kind |-> "null", items |-> <<>>]
ResultNumber == [kind |-> "number", items |-> <<>>]

\* Python truthiness:  not search_results  (the number is non-zero)
Falsy(rv) == rv.kind = "null" \/ (rv.kind = "list" /\ rv.items = <<>>)

\* len(search_results) where it is reached with a list
NumChunks(rv) == Len(rv.items)

Similarities(items) == [i \in 1..Len(items) |-> items[i].similarity]

--------------------------------------------------------------------------
(* _is_system_file *)

IsSystemFile(filename) ==
    /\ filename # <<>>
    /\ \E keyword \in SYSTEM_FILES : Contains(Lower(filename), keyword)

(* _calculate_quality_score *)
CalculateQualityScore(similarity) ==
    IF similarity >= 800 THEN "excellent"
    ELSE IF similarity >= 600 THEN "high"
    ELSE IF similarity >= 400 THEN "good"
    ELSE IF similarity >= DefaultMinSimilarity THEN "fair"
    ELSE "low"

(* _get_quality_distribution: the count of one label *)
QualityCount(items, label) ==
    Cardinality({i \in 1..Len(items) : items[i].quality_score = label})

(* _extract_vector_db_info: the keys of the dict it returns *)
ExtractVectorDbInfo(rv) ==
    IF Falsy(rv)
    THEN Ret([type |-> "unknown", status |-> "no_results"])
    ELSE IF rv.kind = "number" THEN Raise(Errors.not_subscriptable_int)
    ELSE Ret([type |-> "unknown",
              embedding_method |-> "unknown",
              total_results |-> Len(rv.items),
              avg_similarity |-> RoundDiv(SumSeq(Similarities(rv.items)), Len(rv.items)),
              quality_distribution |->
                  [l \in {"excellent", "high", "good", "fair", "low", "unknown"} |->
                      QualityCount(rv.items, l)]])

(* _get_search_performance_metrics *)
GetSearchPerformanceMetrics(rv) ==
    IF Falsy(rv)
    THEN Ret([search_time_ms |-> 0, results_count |-> 0])
    ELSE IF rv.kind = "number" THEN Raise(Errors.not_subscriptable_int)
    ELSE Ret([search_time_ms |-> 0,
              results_count |-> Len(rv.items),
              avg_similarity |-> RoundDiv(SumSeq(Similarities(rv.items)), Len(rv.items))])

(* _format_search_results: the sentinel, or a header, one entry per chunk in *)
(* the order of the list, and a footer                                       *)
FormatEntry(i, c) ==
    [kind |-> "chunk",
     index |-> i,
     filename |-> IF c.filename = <<>> THEN <<"u","n","k","n","o","w","n">> ELSE c.filename,
     similarity |-> c.similarity,
     \* printed in upper case
     quality |-> c.quality_score]

FormatSearchResults(rv, mode) ==
    IF Falsy(rv) THEN Ret(<< [kind |-> "text", text |-> NoContextSentinel] >>)
    ELSE IF rv.kind = "number" THEN Raise(Errors.not_iterable_int)
    ELSE LET n == Len(rv.items)
             info == ExtractVectorDbInfo(rv).value
         IN  Ret(<< [kind |-> "header",
                     results |-> n,
                     avg_similarity |-> info.avg_similarity] >>
                 \o [i \in 1..n |-> FormatEntry(i, rv.items[i])]
                 \o << [kind |-> "footer"] >>)

(* _estimate_confidence: the confidence values round() can produce, in       *)
(* thousandths.  The comparisons of the average are made on exact values.    *)
BaseConfidence(mode) == IF mode = "detailed" THEN 6000 ELSE 5000

\* a variant of SimilarityBonus that rewards an average equal to a threshold
SimilarityBonusAtThreshold(sum, n) ==
    IF sum >= 800 * n THEN 3500
    ELSE IF sum >= 600 * n THEN 2500
    ELSE IF sum >= 400 * n THEN 1500
    ELSE IF sum >= DefaultMinSimilarity * n THEN 500
    ELSE 0

\* the steps of lines 377-386; sum is the sum of the n similarities
SimilarityBonus(sum, n) ==
    IF sum > 800 * n THEN 3500
    ELSE IF sum > 600 * n THEN 2500
    ELSE IF sum > 400 * n THEN 1500
    ELSE IF sum > DefaultMinSimilarity * n THEN 500
    ELSE 0

CountBonus(n) == IF n >= 5 THEN 1000 ELSE IF n >= 3 THEN 500 ELSE 0

ComplexityPenalty(words) == IF words > 20 THEN -1000 ELSE IF words > 15 THEN -500 ELSE 0

EstimateConfidence(rv, query, mode) ==
    IF Falsy(rv) THEN {EmptyConfidence}
    ELSE LET items == rv.items
             n == Len(items)
             fixed == BaseConfidence(mode)
                        + SimilarityBonus(SumSeq(Similarities(items)), n)
                        + CountBonus(n)
                        + ComplexityPenalty(WordCount(query))
             \* quality_bonus = (excellent * 0.5 + high * 0.3) / n
             qualityTimesN == 500 * QualityCount(items, "excellent")
                                + 300 * QualityCount(items, "high")
         IN  { Max(MinConfidence, Min(MaxConfidence, 100 * t)) :
                   t \in RoundDivSet(n * fixed + qualityTimesN, 100 * n) }

--------------------------------------------------------------------------
(* _extract_confidence_from_response: the four regular-expression searches  *)
(* on response.lower(), then the keyword fallback                           *)

DigitVal(c) == CHOOSE v \in 0..9 : <<"0","1","2","3","4","5","6","7","8","9">>[v + 1] = c

RECURSIVE IntOf(_)
IntOf(ds) == IF ds = <<>> THEN 0 ELSE 10 * IntOf(SubSeq(ds, 1, Len(ds) - 1)) + DigitVal(ds[Len(ds)])

\* the last index of the maximal run of digits that starts at i
DigitRunEnd(t, i) ==
    CHOOSE e \in i..Len(t) :
        /\ \A k \in i..e : IsDigit(t[k])
        /\ (e = Len(t) \/ ~IsDigit(t[e + 1]))

\* the last index of the greedy match of  \d+(?:\.\d+)?  that starts at i
NumberEnd(t, i) ==
    LET e == DigitRunEnd(t, i)
    IN  IF e + 2 <= Len(t) /\ t[e + 1] = "." /\ IsDigit(t[e + 2])
        THEN DigitRunEnd(t, e + 2)
        ELSE e

\* float(t[i..e]) in thousandths; digits after the third decimal are dropped
ParseNumber(t, i, e) ==
    LET dots == {p \in i..e : t[p] = "."}
    IN  IF dots = {} THEN 1000 * IntOf(SubSeq(t, i, e))
        ELSE LET p == CHOOSE q \in dots : TRUE
                 frac == SubSeq(t, p + 1, Min(e, p + 3))
                 pad == IF Len(frac) = 1 THEN 100 ELSE IF Len(frac) = 2 THEN 10 ELSE 1
             IN  1000 * IntOf(SubSeq(t, i, p - 1)) + pad * IntOf(frac)

IsColonOrSpace(c) == c = ":" \/ IsSpace(c)
IsSlashOrSpace(c) == c = "/" \/ IsSpace(c)

\* word[:\s]+(\d+(?:\.\d+)?) matches at i; the group starts at the result
LabelledGroupStart(t, i, word) ==
    LET j == i + Len(word)
        e == CHOOSE x \in j..Len(t) :
                 /\ \A k \in j..x : IsColonOrSpace(t[k])
                 /\ (x = Len(t) \/ ~IsColonOrSpace(t[x + 1]))
    IN  e + 1

LabelledMatchAt(t, i, word) ==
    /\ HasAt(t, i, word)
    /\ i + Len(word) <= Len(t)
    /\ IsColonOrSpace(t[i + Len(word)])
    /\ LabelledGroupStart(t, i, word) <= Len(t)
    /\ IsDigit(t[LabelledGroupStart(t, i, word)])

\* re.search(word[:\s]+(\d+(?:\.\d+)?), t): the set holding float(group(1)), or {}
SearchLabelled(t, word) ==
    LET starts == {i \in 1..Len(t) : LabelledMatchAt(t, i, word)}
    IN  IF starts = {} THEN {}
        ELSE LET i == CHOOSE x \in starts : \A y \in starts : x <= y
                 g == LabelledGroupStart(t, i, word)
             IN  {ParseNumber(t, g, NumberEnd(t, g))}

\* confidence.*?(\d+(?:\.\d+)?) : the first digit after the word on the same line
LazyDigitsAfter(t, i) ==
    {d \in (i + 10)..Len(t) :
        /\ IsDigit(t[d])
        /\ \A k \in (i + 10)..(d - 1) : t[k] # "\n"}

SearchLazy(t) ==
    LET starts == {i \in 1..Len(t) :
                      HasAt(t, i, <<"c","o","n","f","i","d","e","n","c","e">>) /\ LazyDigitsAfter(t, i) # {}}
    IN  IF starts = {} THEN {}
        ELSE LET i == CHOOSE x \in starts : \A y \in starts : x <= y
                 ds == LazyDigitsAfter(t, i)
                 g == CHOOSE x \in ds : \A y \in ds : x <= y
             IN  {ParseNumber(t, g, NumberEnd(t, g))}

\* (\d+(?:\.\d+)?)[/\s]*10.*confidence : the ends the group can have from s
GroupEnds(t, s) ==
    LET e == DigitRunEnd(t, s)
    IN  (s..e) \cup
        (IF e + 2 <= Len(t) /\ t[e + 1] = "." /\ IsDigit(t[e + 2])
         THEN (e + 2)..DigitRunEnd(t, e + 2)
         ELSE {})

\* [/\s]*10.*confidence matches from index p on
OutOfTenTail(t, p) ==
    \E k \in p..(Len(t) + 1) :
        /\ \A x \in p..(k - 1) : IsSlashOrSpace(t[x])
        /\ HasAt(t, k, <<"1","0">>)
        /\ \E c \in (k + 2)..Len(t) :
              /\ HasAt(t, c, <<"c","o","n","f","i","d","e","n","c","e">>)
              /\ \A x \in (k + 2)..(c - 1) : t[x] # "\n"

OutOfTenEnds(t, s) == {e \in GroupEnds(t, s) : OutOfTenTail(t, e + 1)}

SearchOutOfTen(t) ==
    LET starts == {s \in 1..Len(t) : IsDigit(t[s]) /\ OutOfTenEnds(t, s) # {}}
    IN  IF starts = {} THEN {}
        ELSE LET s == CHOOSE x \in starts : \A y \in starts : x <= y
                 es == OutOfTenEnds(t, s)
                 e == CHOOSE x \in es : \A y \in es : x >= y
             IN  {ParseNumber(t, s, e)}

\* a variant of ClampScore that returns the parsed number as it is
ClampScoreUnclamped(score) == score

\* min(10, max(1, score))
ClampScore(score) == Min(MaxConfidence, Max(MinConfidence, score))

HasAnyWord(t, words) == \E w \in words : Contains(t, w)

KeywordConfidence(t) ==
    IF HasAnyWord(t, {<<"c","e","r","t","a","i","n">>, <<"c","l","e","a","r">>, <<"d","e","f","i","n","i","t","e","l","y">>, <<"c","o","n","f","i","d","e","n","t">>}) THEN 8000
    ELSE IF HasAnyWord(t, {<<"l","i","k","e","l","y">>, <<"p","r","o","b","a","b","l","y">>, <<"s","e","e","m","s">>, <<"a","p","p","e","a","r","s">>}) THEN 6000
    ELSE IF HasAnyWord(t, {<<"u","n","c","e","r","t","a","i","n">>, <<"u","n","c","l","e","a","r">>, <<"m","i","g","h","t">>, <<"p","o","s","s","i","b","l","y">>}) THEN 4000
    ELSE 7000

ExtractConfidenceFromResponse(response) ==
    LET t == Lower(response)
        p1 == SearchLabelled(t, <<"c","o","n","f","i","d","e","n","c","e">>)
        p2 == SearchLazy(t)
        p3 == SearchOutOfTen(t)
        p4 == SearchLabelled(t, <<"c","e","r","t","a","i","n","t","y">>)
        first == IF p1 # {} THEN p1 ELSE IF p2 # {} THEN p2 ELSE IF p3 # {} THEN p3 ELSE p4
    IN  IF first # {}
        THEN ClampScore(CHOOSE v \in first : TRUE)
        ELSE KeywordConfidence(t)

--------------------------------------------------------------------------
(* _extract_citations_from_search and its helpers *)

FileChunks(filename, items) == {i \in 1..Len(items) : items[i].filename = filename}

RECURSIVE SumOver(_, _)
SumOver(items, idx) ==
    IF idx = {} THEN 0
    ELSE LET i == CHOOSE x \in idx : TRUE
         IN  items[i].similarity + SumOver(items, idx \ {i})

\* _get_file_relevance: the mean similarity of the file's chunks, as "%.3f" prints it
GetFileRelevance(filename, items) ==
    LET idx == FileChunks(filename, items)
    IN  IF idx = {} THEN 0 ELSE RoundDiv(SumOver(items, idx), Cardinality(idx))

\* _get_file_max_similarity
GetFileMaxSimilarity(filename, items) ==
    LET idx == FileChunks(filename, items)
    IN  IF idx = {} THEN 0
        ELSE items[CHOOSE i \in idx : \A j \in idx : items[i].similarity >= items[j].similarity].similarity

\* _get_file_chunk_count
GetFileChunkCount(filename, items) == Cardinality(FileChunks(filename, items))

SourceMarker(filename) == <<"[","S","o","u","r","c","e",":"," ">> \o filename \o <<"]">>

\* a variant of IsCited that compares the bare filename as it is written
IsCitedCaseSensitive(filename, response) ==
    /\ filename # <<>>
    /\ \/ Contains(response, SourceMarker(filename))
       \/ Contains(response, filename)

\* the condition of line 508
IsCited(filename, response) ==
    /\ filename # <<>>
    /\ \/ Contains(response, SourceMarker(filename))
       \/ Contains(Lower(response), Lower(filename))

Citation(filename, items) ==
    [file |-> filename,
     type |-> IF IsSystemFile(filename) THEN "SYSTEM" ELSE "USER",
     relevance |-> GetFileRelevance(filename, items),
     similarity_score |-> GetFileMaxSimilarity(filename, items),
     chunk_count |-> GetFileChunkCount(filename, items)]

\* a variant of ResultFilenames that looks for every known file name
ResultFilenamesAnyKnownFile(items) == FileNames

\* the filenames of the result set: set(result.get('filename', '') ...)
ResultFilenames(items) == {items[i].filename : i \in 1..Len(items)}

\* The lists the function can return: the set of filenames is iterated in an
\* order the hash seed decides, and the stable sort orders by similarity_score,
\* descending, so citations of equal similarity_score come in either order.
ExtractCitationsFromSearch(response, rv) ==
    IF rv.kind # "list" THEN Raise(IF rv.kind = "null" THEN Errors.not_iterable_none ELSE Errors.not_iterable_int)
    ELSE LET cited == {Citation(f, rv.items) :
                          f \in {g \in ResultFilenames(rv.items) : IsCited(g, response)}}
             n == Cardinality(cited)
         IN  Ret({s \in [1..n -> cited] :
                    /\ \A i, j \in 1..n : i # j => s[i] # s[j]
                    /\ \A i \in 1..(n - 1) : s[i].similarity_score >= s[i + 1].similarity_score})

--------------------------------------------------------------------------
(* _format_conversation_history *)

MessageBudget == 150
ResponseBudget == 200

Truncate(s, n) == SubSeq(s, 1, Min(Len(s), n))

\* a variant of LastTurns that keeps the oldest turns: history[:n]
FirstTurns(history, n) ==
    IF Len(history) <= n THEN history ELSE SubSeq(history, 1, n)

\* history[-n:]
LastTurns(history, n) ==
    IF Len(history) <= n THEN history ELSE SubSeq(history, Len(history) - n + 1, Len(history))

\* the block is the empty string for an empty history (<<>> here), else one
\* numbered entry per turn between a header and a footer line
FormatConversationHistory(history) ==
    [i \in 1..Len(history) |->
        [index |-> i,
         message |-> Truncate(history[i].message, MessageBudget),
         response |-> Truncate(history[i].response, ResponseBudget)]]

\* lines 138-140 and 195-197: the block of the last 3 turns in fast mode and
\* of the last 5 in detailed mode, the empty string for an empty history
ConversationContext(mode, history) ==
    IF history # <<>>
    THEN FormatConversationHistory(
             LastTurns(history, IF mode = "fast" THEN FastHistoryTurns ELSE DetailedHistoryTurns))
    ELSE <<>>

--------------------------------------------------------------------------
(* _prepare_search_options and _semantic_search *)

NoOptions == [kind |-> "none", max_chunks |-> 0, similarity_threshold |-> 0]
DictOptions(k, s) == [kind |-> "dict", max_chunks |-> k, similarity_threshold |-> s]
ListOptions == [kind |-> "list", max_chunks |-> 0, similarity_threshold |-> 0]

PrepareSearchOptions(vector_db_options, top_k) ==
    IF vector_db_options.kind = "none"
    THEN Ret([top_k |-> top_k, min_similarity |-> DefaultMinSimilarity])
    ELSE IF vector_db_options.kind = "list" THEN Raise(Errors.no_get)
    ELSE Ret([top_k |-> vector_db_options.max_chunks,
              min_similarity |-> vector_db_options.similarity_threshold])

\* What the search service does with one request: no usable answer
\* (SearchFailures), a JSON object without "results", with "results": null,
\* with a number for "results", or with a list of chunks
SearchFailures == {"timeout", "connection_error", "http_error", "not_json", "not_an_object"}

SearchOutcomes ==
    [kind : SearchFailures \cup {"no_results_key"}, results : {ResultList(<<>>)}]
    \cup { [kind |-> "results_null", results |-> ResultNull],
           [kind |-> "results_number", results |-> ResultNumber] }
    \cup [kind : {"ok"},
          results : {ResultList(items) : items \in SeqsUpTo(ChunkPool, MaxChunks)}]

\* _semantic_search: a failure is answered with [], a missing "results" key
\* with the default [], and any other body with data.get('results', [])
SemanticSearch(outcome) ==
    IF outcome.kind \in SearchFailures THEN ResultList(<<>>)
    ELSE IF outcome.kind = "no_results_key" THEN ResultList(<<>>)
    ELSE outcome.results

--------------------------------------------------------------------------
(* _prepare_model_options and _call_ollama *)

\* A parameter value: absent, a finite number in thousandths, or one of the
\* floats inf, -inf and nan (json.loads reads 1e999 as inf)
Absent == [num |-> "absent", v |-> 0]
Finite(v) == [num |-> "finite", v |-> v]
Infinite == [num |-> "inf", v |-> 0]
NegInfinite == [num |-> "neg_inf", v |-> 0]
NotANumber == [num |-> "nan", v |-> 0]

\* the keys _prepare_model_options reads, in the order it reads them
ParamKeys == << "temperature", "top_p", "top_k", "repeat_penalty", "seed", "num_predict" >>

NoFields == [k \in {ParamKeys[i] : i \in 1..Len(ParamKeys)} |-> Absent]

\* model_params: a dict of parameter values, or a string
DictParams == [kind |-> "dict", fields |-> NoFields]
StrParams  == [kind |-> "str", fields |-> NoFields]
\* a dict whose top_k is the float infinity
InfParams  == [kind |-> "dict", fields |-> [NoFields EXCEPT !["top_k"] = Infinite]]

\* a caller's own choice: temperature 2.5, above the range, and top_k 50
HotParams ==
    [kind |-> "dict", fields |-> [NoFields EXCEPT !["temperature"] = Finite(2500),
                                                  !["top_k"] = Finite(50000)]]

\* int(x) of a finite number: the fraction is cut off, towards zero
Truncated(v) == IF v >= 0 THEN v \div 1000 ELSE -((-v) \div 1000)

\* max(lo, min(hi, float(x))): min(hi, nan) is hi, as nan < hi is false
ClampFloat(val, lo, hi) ==
    IF val.num = "finite" THEN Max(lo, Min(hi, val.v))
    ELSE IF val.num = "neg_inf" THEN lo
    ELSE hi

\* one line of lines 677-688: the option is left out, set, or the conversion
\* raises (int(inf) is an OverflowError, int(nan) a ValueError)
ConvertParam(key, val) ==
    IF val.num = "absent" THEN [status |-> "absent", v |-> 0]
    ELSE IF key = "temperature" THEN [status |-> "set", v |-> ClampFloat(val, 0, 2000)]
    ELSE IF key = "top_p" THEN [status |-> "set", v |-> ClampFloat(val, 0, 1000)]
    ELSE IF key = "repeat_penalty" THEN [status |-> "set", v |-> ClampFloat(val, 500, 2000)]
    ELSE IF key \in {"seed", "num_predict"} /\ val = Finite(-1000)
    THEN [status |-> "absent", v |-> 0]
    ELSE IF val.num \in {"inf", "neg_inf"} THEN [status |-> "OverflowError", v |-> 0]
    ELSE IF val.num = "nan" THEN [status |-> "ValueError", v |-> 0]
    ELSE IF key = "top_k"
    THEN [status |-> "set", v |-> 1000 * Max(1, Min(100, Truncated(val.v)))]
    ELSE IF key = "seed" THEN [status |-> "set", v |-> 1000 * Truncated(val.v)]
    ELSE [status |-> "set", v |-> 1000 * Max(1, Truncated(val.v))]

\* _prepare_model_options: the options set before the first conversion that
\* raises; the except clause of line 689 catches ValueError and TypeError and
\* lets an OverflowError pass.  A string has none of the keys in it.
PrepareModelOptions(model_params) ==
    IF model_params.kind = "str" THEN Ret(NoFields)
    ELSE LET conv == [i \in 1..Len(ParamKeys) |->
                         ConvertParam(ParamKeys[i], model_params.fields[ParamKeys[i]])]
             failed == {i \in 1..Len(ParamKeys) : conv[i].status \in {"OverflowError", "ValueError"}}
             first == IF failed = {} THEN Len(ParamKeys) + 1
                      ELSE CHOOSE i \in failed : \A j \in failed : i <= j
         IN  IF first <= Len(ParamKeys) /\ conv[first].status = "OverflowError"
             THEN Raise(Errors.infinity)
             ELSE Ret([k \in DOMAIN NoFields |->
                          LET i == CHOOSE j \in 1..Len(ParamKeys) : ParamKeys[j] = k
                          IN  IF i < first /\ conv[i].status = "set"
                              THEN Finite(conv[i].v) ELSE Absent])

GenerationFailures == {"timeout", "http_error", "unreachable", "not_json"}

\* the text _call_ollama returns for one outcome of the request
OllamaText(outcome) ==
    IF outcome.kind = "ok" THEN outcome.text
    ELSE IF outcome.kind = "no_response_key" THEN <<>>
    ELSE IF outcome.kind = "http_error" THEN <<"E","r","r","o","r",":"," ","O","l","l","a","m","a"," ","A","P","I"," ","r","e","t","u","r","n","e","d"," ","5","0","0">>
    ELSE IF outcome.kind = "timeout" THEN <<"E","r","r","o","r",":"," ","R","e","s","p","o","n","s","e"," ","g","e","n","e","r","a","t","i","o","n"," ","t","i","m","e","d"," ","o","u","t">>
    ELSE <<"E","r","r","o","r",":"," ","U","n","a","b","l","e"," ","t","o"," ","g","e","n","e","r","a","t","e"," ","r","e","s","p","o","n","s","e"," ","-"," ">>
             \o (IF outcome.kind = "unreachable"
                 THEN <<"C","o","n","n","e","c","t","i","o","n"," ","r","e","f","u","s","e","d">>
                 ELSE <<"E","x","p","e","c","t","i","n","g"," ","v","a","l","u","e",":"," ","l","i","n","e"," ","1"," ","c","o","l","u","m","n"," ","1"," ","(","c","h","a","r"," ","0",")">>)

CallOllama(model_params, outcome) ==
    IF PrepareModelOptions(model_params).raised
    THEN Raise(PrepareModelOptions(model_params).exc)
    ELSE Ret(OllamaText(outcome))

(* _analyze_query: model_params.copy(), then top_k and temperature are overwritten *)
AnalysisParams(model_params) ==
    IF model_params.kind = "str" THEN Raise(Errors.no_copy)
    ELSE Ret([model_params EXCEPT !.fields["temperature"] = Finite(300),
                                  !.fields["top_k"] = Finite(20000)])

\* a variant of CallerParams in which the analysis writes into the caller's dict
CallerParamsOverwritten(model_params) ==
    IF AnalysisParams(model_params).raised THEN model_params
    ELSE AnalysisParams(model_params).value

\* the caller's dict after _analyze_query: the overrides went to the copy of
\* line 464, the dict itself is as it was
CallerParams(model_params) == model_params

AnalyzeQueryCall(model_params, outcome) ==
    IF AnalysisParams(model_params).raised
    THEN Raise(AnalysisParams(model_params).exc)
    ELSE CallOllama(AnalysisParams(model_params).value, outcome)

--------------------------------------------------------------------------
(* _generate_reasoning_chain: the stage names, in order.  The second stage  *)
(* reads search_perf['avg_similarity'], a key                               *)
(* _get_search_performance_metrics leaves out for an empty result.          *)

ReasoningStages ==
    << "decomposition", "evidence_gathering", "pattern_identification",
       "hypothesis_formation", "verification", "synthesis" >>

GenerateReasoningChain(query, rv, analysis) ==
    IF Falsy(rv) THEN Raise(Errors.key_avg_similarity)
    ELSE Ret([i \in 1..Len(ReasoningStages) |->
                 [stage |-> ReasoningStages[i],
                  sources |-> Len(rv.items),
                  avg_similarity |-> GetSearchPerformanceMetrics(rv).value.avg_similarity]])

--------------------------------------------------------------------------
(* The inputs of process_query and the answers of the two backends *)

QShort == <<"W","h","a","t"," ","i","s"," ","X","?">>
\* a query of 16 words and one of 21 words
Q16 == <<"q"," ","q"," ","q"," ","q"," ","q"," ","q"," ","q"," ","q"," ","q"," ","q"," ","q"," ","q"," ","q"," ","q"," ","q"," ","q">>
Q21 == <<"q"," ","q"," ","q"," ","q"," ","q"," ","q"," ","q"," ","q"," ","q"," ","q"," ","q"," ","q"," ","q"," ","q"," ","q"," ","q"," ","q"," ","q"," ","q"," ","q"," ","q">>

Turn(m, r) == [message |-> m, response |-> r]
HistoryOne == << Turn(<<"H","i">>, <<"H","e","l","l","o">>) >>

Input(mode, q, p, v, h) ==
    [mode |-> mode, user_message |-> q, model_params |-> p,
     vector_db_options |-> v, conversation_history |-> h]

\* the default call of each mode and the calls that differ from it in one argument
Inputs ==
    UNION { { Input(m, QShort, DictParams, NoOptions, <<>>),
              Input(m, Q16, HotParams, NoOptions, <<>>),
              Input(m, Q21, DictParams, NoOptions, <<>>),
              Input(m, QShort, StrParams, NoOptions, <<>>),
              Input(m, QShort, InfParams, NoOptions, <<>>),
              Input(m, QShort, DictParams, DictOptions(10, 500), <<>>),
              Input(m, QShort, DictParams, ListOptions, <<>>),
              Input(m, QShort, DictParams, NoOptions, HistoryOne) } : m \in {"fast", "detailed"} }

ResponseTexts ==
    { <<"S","e","e"," ","[","S","o","u","r","c","e",":"," ","n","o","t","e","s",".","t","x","t","]","."," ","C","o","n","f","i","d","e","n","c","e",":"," ","8">>,
      <<"C","O","N","F","I","G",".","J","S","O","N"," ","s","a","y","s"," ","s","o",","," ","c","o","n","f","i","d","e","n","c","e"," ","8","5","%">>,
      <<"I"," ","a","m"," ","u","n","c","e","r","t","a","i","n">>,
      <<"a",".","t","x","t"," ","a","n","d"," ","n","o","t","e","s",".","t","x","t"," ","m","i","g","h","t"," ","a","p","p","l","y">>,
      <<"I","t"," ","s","e","e","m","s"," ","s","o"," ","[","S","o","u","r","c","e",":"," ","x",".","p","d","f","]">>,
      <<"C","o","n","f","i","d","e","n","c","e",":"," ","0",".","5"," ","p","e","r"," ","d","a","t","a",".","t","x","t">>,
      <<"N","o"," ","a","n","s","w","e","r",".">> }

AnalysisText == <<"f","a","c","t","u","a","l"," ","q","u","e","r","y">>

GenerationOutcomes ==
    [kind : GenerationFailures \cup {"no_response_key"}, text : {<<>>}]
    \cup [kind : {"ok"}, text : ResponseTexts]

AnalysisOutcomes ==
    { [kind |-> "ok", text |-> AnalysisText], [kind |-> "timeout", text |-> <<>>] }

--------------------------------------------------------------------------
(* The prompts, as the sequence of the blocks the templates interpolate *)

AnalysisPrompt(user_message) ==
    << [kind |-> "analysis_task"],
       [kind |-> "question", text |-> user_message],
       [kind |-> "analysis_instructions"] >>

\* lines 143-159
FastPrompt(conversation_context, user_message, context_content) ==
    << [kind |-> "task", mode |-> "fast"],
       [kind |-> "history", turns |-> conversation_context],
       [kind |-> "question", text |-> user_message],
       [kind |-> "context", content |-> context_content],
       [kind |-> "instructions", mode |-> "fast"] >>

\* lines 200-219
DetailedPrompt(analysis_text, conversation_context, user_message, context_content) ==
    << [kind |-> "task", mode |-> "detailed"],
       [kind |-> "analysis", text |-> analysis_text],
       [kind |-> "history", turns |-> conversation_context],
       [kind |-> "question", text |-> user_message],
       [kind |-> "context", content |-> context_content],
       [kind |-> "instructions", mode |-> "detailed"] >>

--------------------------------------------------------------------------
(* The results of process_query *)

ErrorPrefix == <<"I"," ","a","p","o","l","o","g","i","z","e",","," ","b","u","t"," ","I"," ","e","n","c","o","u","n","t","e","r","e","d"," ","a","n"," ","e","r","r","o","r"," ","w","h","i","l","e"," ","p","r","o","c","e","s","s","i","n","g"," ","y","o","u","r"," ","q","u","e","r","y",":"," ">>

NoResult ==
    [response |-> <<>>, citations |-> <<>>, context_chunks_used |-> 0,
     processing_mode |-> "none", confidence_score |-> 0,
     reasoning_chain |-> <<>>, error_type |-> "none"]

\* a variant of ErrorResult that reports no confidence
ErrorResultZeroConfidence(e) ==
    [response |-> ErrorPrefix \o e.msg, citations |-> <<>>, context_chunks_used |-> 0,
     processing_mode |-> "error", confidence_score |-> 0,
     reasoning_chain |-> <<>>, error_type |-> e.type]

\* lines 112-126
ErrorResult(e) ==
    [response |-> ErrorPrefix \o e.msg, citations |-> <<>>, context_chunks_used |-> 0,
     processing_mode |-> "error", confidence_score |-> ErrorConfidence,
     reasoning_chain |-> <<>>, error_type |-> e.type]

\* lines 165-181 and 228-247
ModeResult(mode, text, cits, rv, conf, chain) ==
    [response |-> text, citations |-> cits, context_chunks_used |-> NumChunks(rv),
     processing_mode |-> mode, confidence_score |-> conf,
     reasoning_chain |-> chain, error_type |-> "none"]

--------------------------------------------------------------------------
(* The chat endpoints of the web application: the data of a request and    *)
(* the functions of the conversation log                                   *)

\* bounds: the request threads of the server and the requests they accept
MaxThreads == 2
MaxRequests == 2

ThreadIds == 1..MaxThreads

\* a key of a request that may be missing is a sequence of no or one value;
\* data.get(key, default) and request.args.get(key)
Get(opt, default) == IF opt = <<>> THEN default ELSE opt[1]

\* the conversation_id of a chat request: missing or given
ChatConversationIds == { <<>>, << "B" >> }

\* the conversation_id query parameter of a clear request: missing, empty or given
ClearConversationIds == { <<>>, << "" >>, << "default" >>, << "B" >> }

\* the message of a chat request: missing, blank or a question
ChatMessages == { <<>>, << <<" ">> >>, << <<"h","i">> >> }

\* str.lstrip() and str.rstrip()
RECURSIVE LStrip(_)
LStrip(s) == IF s # <<>> /\ IsSpace(Head(s)) THEN LStrip(Tail(s)) ELSE s

RECURSIVE RStrip(_)
RStrip(s) ==
    IF s # <<>> /\ IsSpace(s[Len(s)]) THEN RStrip(SubSeq(s, 1, Len(s) - 1)) ELSE s

\* a variant of Strip that leaves the text as it is
Unstripped(s) == s

\* str.strip()
Strip(s) == RStrip(LStrip(s))

\* the number of turns of a conversation handed to the pipeline, line 832
ChatHistoryTurns == 5

\* chat_entry, lines 845-860: the fields of a turn the endpoints read; request
\* numbers the request the turn was created for and stands for its timestamp
ChatEntry(request, conversation_id, message, processing_mode) ==
    [request |-> request, conversation_id |-> conversation_id, message |-> message,
     processing_mode |-> processing_mode]

\* a variant of ConversationMessages that keeps the turns of every conversation
AllMessages(log, conversation_id) == log

\* conversation_messages, lines 828-831
ConversationMessages(log, conversation_id) ==
    SelectSeq(log, LAMBDA entry : entry.conversation_id = conversation_id)

\* conversation_history, line 832: conversation_messages[-5:]
ConversationHistory(log, conversation_id) ==
    LET conversation_messages == ConversationMessages(log, conversation_id)
        n == Len(conversation_messages)
    IN  SubSeq(conversation_messages, Max(1, n - ChatHistoryTurns + 1), n)

\* the list comprehension of clear_chat_history, line 939
OtherConversations(log, conversation_filter) ==
    SelectSeq(log, LAMBDA h : h.conversation_id # conversation_filter)

\* what one process_query call of the chat endpoint does, lines 89-126, for
\* fast_mode left at its default: the processing_mode of its result and the
\* requests it sent.  The query searches and generates; one whose parameters
\* cannot be converted (top_k of 1e999) fails after the search with the
\* error result of the except clause
ProcessQueryRuns ==
    { [processing_mode |-> "fast", requests |-> << "search", "generate" >>],
      [processing_mode |-> "error", requests |-> << "search" >>] }

\* a thread that handles no request
IdleThread ==
    [op |-> "idle", pc |-> "idle", request |-> 0, conversation_id |-> "",
     message |-> <<>>, conversation_history |-> <<>>, processing_mode |-> "",
     list_ref |-> 0, conversation_filter |-> <<>>, original_count |-> 0,
     filtered |-> <<>>]

\* if conversation_filter: None and the empty string are false
FilterGiven(conversation_filter) ==
    conversation_filter # <<>> /\ conversation_filter[1] # ""

\* the response to a request: its status and, for a clear request, its count
Response(request, op, status, messages_cleared) ==
    [request |-> request, op |-> op, status |-> status,
     messages_cleared |-> messages_cleared]

--------------------------------------------------------------------------
(* The state of one process_query call *)

VARIABLES
    pc,                    \* the stage the call is at
    fast_mode,             \* "fast" or "detailed"
    user_message,
    model_params,
    vector_db_options,
    conversation_history,
    analysis,              \* the text _analyze_query returned
    relevant_chunks,       \* what _semantic_search returned
    context_content,       \* what _format_search_results returned
    prompt,                \* the prompt of the answer call
    response,              \* the text the answer call returned
    result,                \* what process_query returns
    trace,                 \* the stages this call entered, in order
    search_requests,       \* the requests sent to the search service by this call
    generate_requests      \* the requests sent to the generative backend by this call
                           \* (the answer request carries the prompt variable)

\* The system context cache (section 4.3 of the specification)
VARIABLES
    ctx_state,             \* "EMPTY" or "LOADED"
    ctx_text,              \* the snapshot's text
    ctx_generated_at,      \* the snapshot's timestamp, in seconds
    now,                   \* the clock, in seconds
    ctx_retrievals,        \* the retrieval calls the cache has issued
    ctx_calls,             \* the get_system_context calls made
    ctx_returned           \* what the last get_system_context call returned

pipelineVars == << pc, fast_mode, user_message, model_params, vector_db_options,
                   conversation_history, analysis, relevant_chunks, context_content,
                   prompt, response, result, trace, search_requests, generate_requests >>

cacheVars == << ctx_state, ctx_text, ctx_generated_at, now, ctx_retrievals, ctx_calls,
                ctx_returned >>

\* One helper function of the pipeline applied to arguments on its own
VARIABLES
    fn,                    \* the name of the function called last
    args,                  \* the arguments of that call
    out                    \* what the call returned

helperVars == << fn, args, out >>

\* The chat endpoints of the web application: the conversation log and the
\* requests the server's threads are handling
VARIABLES
    chat_history,          \* the list the global chat_history is bound to, line 26
    list_id,               \* the identity of that list: every rebinding binds a new one
    threads,               \* what each request thread is doing
    served,                \* the number of requests accepted so far
    backend_requests,      \* the search and generation requests sent for chat requests
    responses              \* the responses sent

chatVars == << chat_history, list_id, threads, served, backend_requests, responses >>

\* DELETE /api/files/<filename>: the requests handled and the delete
\* requests forwarded to the file store
VARIABLES
    file_responses,        \* the filename and status of every request handled
    delete_requests        \* the filenames of the requests sent to the file store

fileVars == << file_responses, delete_requests >>

\* The saved configurations, lines 28-29
VARIABLES
    saved_configurations,  \* the module-level list of configurations
    config_id_counter      \* the id the next configuration gets

configVars == << saved_configurations, config_id_counter >>

serverVars == << chatVars, fileVars, configVars >>

vars == << pipelineVars, cacheVars, helperVars, serverVars >>

inputVars == << fast_mode, user_message, model_params, vector_db_options,
                conversation_history >>

Init ==
    /\ pc = "idle"
    /\ fast_mode = "fast"
    /\ user_message = QShort
    /\ model_params = DictParams
    /\ vector_db_options = NoOptions
    /\ conversation_history = <<>>
    /\ analysis = <<>>
    /\ relevant_chunks = ResultList(<<>>)
    /\ context_content = <<>>
    /\ prompt = <<>>
    /\ response = <<>>
    /\ result = NoResult
    /\ trace = <<>>
    /\ search_requests = <<>>
    /\ generate_requests = <<>>
    /\ ctx_state = "EMPTY"
    /\ ctx_text = <<>>
    /\ ctx_generated_at = 0
    /\ now = 0
    /\ ctx_retrievals = 0
    /\ ctx_calls = 0
    /\ ctx_returned = <<>>
    /\ fn = "none"
    /\ args = <<>>
    /\ out = <<>>
    /\ chat_history = <<>>
    /\ list_id = 0
    /\ threads = [t \in ThreadIds |-> IdleThread]
    /\ served = 0
    /\ backend_requests = {}
    /\ responses = {}
    /\ file_responses = <<>>
    /\ saved_configurations = <<>>
    /\ config_id_counter = 1
    /\ delete_requests = <<>>

\* the except clause of process_query, lines 108-126
Fail(stage, e) ==
    /\ pc' = "error"
    /\ result' = ErrorResult(e)
    /\ trace' = trace \o << stage, "ERROR" >>

\* a variant of Start in which detailed mode goes straight to retrieval
StartWithoutAnalysis ==
    /\ pc = "idle"
    /\ \E i \in Inputs :
          /\ fast_mode' = i.mode
          /\ user_message' = i.user_message
          /\ model_params' = i.model_params
          /\ vector_db_options' = i.vector_db_options
          /\ conversation_history' = i.conversation_history
          /\ pc' = "retrieve"
    /\ trace' = << "START" >>
    /\ UNCHANGED << analysis, relevant_chunks, context_content, prompt, response,
                    result, search_requests, generate_requests >>
    /\ UNCHANGED << cacheVars, helperVars, serverVars >>

\* process_query is called: lines 89-100
Start ==
    /\ pc = "idle"
    /\ \E i \in Inputs :
          /\ fast_mode' = i.mode
          /\ user_message' = i.user_message
          /\ model_params' = i.model_params
          /\ vector_db_options' = i.vector_db_options
          /\ conversation_history' = i.conversation_history
          /\ pc' = IF i.mode = "detailed" THEN "analyze_query" ELSE "retrieve"
    /\ trace' = << "START" >>
    /\ UNCHANGED << analysis, relevant_chunks, context_content, prompt, response,
                    result, search_requests, generate_requests >>
    /\ UNCHANGED << cacheVars, helperVars, serverVars >>

\* _detailed_response, line 187
AnalyzeQuery ==
    /\ pc = "analyze_query"
    /\ \E o \in AnalysisOutcomes :
          LET r == AnalyzeQueryCall(model_params, o)
          IN  IF r.raised
              THEN /\ Fail("analyze_query", r.exc)
                   /\ UNCHANGED << analysis, generate_requests >>
              ELSE /\ analysis' = r.value
                   /\ generate_requests' =
                         Append(generate_requests,
                                [purpose |-> "analysis", outcome |-> o.kind,
                                 options |-> PrepareModelOptions(
                                     AnalysisParams(model_params).value).value])
                   /\ pc' = "retrieve"
                   /\ trace' = Append(trace, "analyze_query")
                   /\ UNCHANGED result
    /\ model_params' = CallerParams(model_params)
    /\ UNCHANGED << fast_mode, user_message, vector_db_options, conversation_history,
                    relevant_chunks, context_content, prompt, response,
                    search_requests >>
    /\ UNCHANGED << cacheVars, helperVars, serverVars >>

\* a variant of Retrieve that sends the search request again after a failure
RetrieveWithRetry ==
    /\ pc = "retrieve"
    /\ LET opts == PrepareSearchOptions(vector_db_options,
                                        IF fast_mode = "fast" THEN FastTopK ELSE DetailedTopK)
       IN  IF opts.raised
           THEN /\ Fail("retrieve", opts.exc)
                /\ UNCHANGED << relevant_chunks, search_requests >>
           ELSE \E o \in SearchOutcomes :
                   LET request == [query |-> user_message,
                                   topK |-> opts.value.top_k,
                                   minSimilarity |-> opts.value.min_similarity,
                                   outcome |-> o.kind]
                   IN  /\ relevant_chunks' = SemanticSearch(o)
                       /\ search_requests' =
                             IF o.kind \in SearchFailures
                             THEN search_requests \o << request, request >>
                             ELSE Append(search_requests, request)
                       /\ pc' = "format"
                       /\ trace' = Append(trace, "retrieve")
                       /\ UNCHANGED result
    /\ UNCHANGED << inputVars, analysis, context_content, prompt, response,
                    generate_requests >>
    /\ UNCHANGED << cacheVars, helperVars, serverVars >>

\* lines 132-133 and 190-191
Retrieve ==
    /\ pc = "retrieve"
    /\ LET opts == PrepareSearchOptions(vector_db_options,
                                        IF fast_mode = "fast" THEN FastTopK ELSE DetailedTopK)
       IN  IF opts.raised
           THEN /\ Fail("retrieve", opts.exc)
                /\ UNCHANGED << relevant_chunks, search_requests >>
           ELSE \E o \in SearchOutcomes :
                   /\ relevant_chunks' = SemanticSearch(o)
                   /\ search_requests' =
                         Append(search_requests,
                                [query |-> user_message,
                                 topK |-> opts.value.top_k,
                                 minSimilarity |-> opts.value.min_similarity,
                                 outcome |-> o.kind])
                   /\ pc' = "format"
                   /\ trace' = Append(trace, "retrieve")
                   /\ UNCHANGED result
    /\ UNCHANGED << inputVars, analysis, context_content, prompt, response,
                    generate_requests >>
    /\ UNCHANGED << cacheVars, helperVars, serverVars >>

\* lines 135 and 194
Format ==
    /\ pc = "format"
    /\ LET c == FormatSearchResults(relevant_chunks, fast_mode)
       IN  IF c.raised
           THEN /\ Fail("format", c.exc)
                /\ UNCHANGED context_content
           ELSE /\ context_content' = c.value
                /\ pc' = "prompt"
                /\ trace' = Append(trace, "format")
                /\ UNCHANGED result
    /\ UNCHANGED << inputVars, analysis, relevant_chunks, prompt, response,
                    search_requests, generate_requests >>
    /\ UNCHANGED << cacheVars, helperVars, serverVars >>

\* lines 137-159 and 195-219
BuildPrompt ==
    /\ pc = "prompt"
    /\ LET conversation_context == ConversationContext(fast_mode, conversation_history)
       IN  prompt' = IF fast_mode = "fast"
                     THEN FastPrompt(conversation_context, user_message, context_content)
                     ELSE DetailedPrompt(analysis, conversation_context, user_message,
                                         context_content)
    /\ pc' = "generate"
    /\ trace' = Append(trace, "prompt")
    /\ UNCHANGED << inputVars, analysis, relevant_chunks, context_content, response,
                    result, search_requests, generate_requests >>
    /\ UNCHANGED << cacheVars, helperVars, serverVars >>

\* lines 161 and 221
Generate ==
    /\ pc = "generate"
    /\ \E o \in GenerationOutcomes :
          LET r == CallOllama(model_params, o)
          IN  IF r.raised
              THEN /\ Fail("generate", r.exc)
                   /\ UNCHANGED << response, generate_requests >>
              ELSE /\ response' = r.value
                   /\ generate_requests' =
                         Append(generate_requests,
                                [purpose |-> "answer", outcome |-> o.kind,
                                 options |-> PrepareModelOptions(model_params).value])
                   /\ pc' = "analyze"
                   /\ trace' = Append(trace, "generate")
                   /\ UNCHANGED result
    /\ UNCHANGED << inputVars, analysis, relevant_chunks, context_content, prompt,
                    search_requests >>
    /\ UNCHANGED << cacheVars, helperVars, serverVars >>

\* lines 162-181 and 222-247
Analyze ==
    /\ pc = "analyze"
    /\ LET cits == ExtractCitationsFromSearch(response, relevant_chunks)
           chain == GenerateReasoningChain(user_message, relevant_chunks, analysis)
       IN  IF cits.raised THEN Fail("analyze", cits.exc)
           ELSE IF fast_mode = "fast"
           THEN \E c \in cits.value,
                   conf \in EstimateConfidence(relevant_chunks, user_message, "fast") :
                   /\ result' = ModeResult("fast", response, c, relevant_chunks, conf, <<>>)
                   /\ pc' = "done"
                   /\ trace' = trace \o << "analyze", "DONE" >>
           ELSE IF chain.raised THEN Fail("analyze", chain.exc)
           ELSE \E c \in cits.value :
                   /\ result' = ModeResult("detailed", response, c, relevant_chunks,
                                           ExtractConfidenceFromResponse(response),
                                           chain.value)
                   /\ pc' = "done"
                   /\ trace' = trace \o << "analyze", "DONE" >>
    /\ UNCHANGED << inputVars, analysis, relevant_chunks, context_content, prompt,
                    response, search_requests, generate_requests >>
    /\ UNCHANGED << cacheVars, helperVars, serverVars >>

\* the caller has the result; the pipeline object keeps no state between calls
Return ==
    /\ pc \in {"done", "error"}
    /\ pc' = "idle"
    /\ fast_mode' = "fast"
    /\ user_message' = QShort
    /\ model_params' = DictParams
    /\ vector_db_options' = NoOptions
    /\ conversation_history' = <<>>
    /\ analysis' = <<>>
    /\ relevant_chunks' = ResultList(<<>>)
    /\ context_content' = <<>>
    /\ prompt' = <<>>
    /\ response' = <<>>
    /\ result' = NoResult
    /\ trace' = <<>>
    /\ search_requests' = <<>>
    /\ generate_requests' = <<>>
    /\ UNCHANGED << cacheVars, helperVars, serverVars >>

--------------------------------------------------------------------------
(* The system context cache: get_system_context with a lazy refresh after   *)
(* the time-to-live.  No file of the repository under src/ holds this       *)
(* code; the definitions follow section 4.3 of the specification.           *)

\* bounds of the clock and of the number of calls
MaxTicks == 8
ClockStep == 100
MaxCalls == 4

\* time-to-live of a snapshot, in seconds
CacheTTL == 300

StaticSystemContext == <<"L","o","c","a","l"," ","A","I"," ","s","t","a","c","k",":"," ","r","e","t","r","i","e","v","a","l","-","a","u","g","m","e","n","t","e","d"," ","c","h","a","t">>
DerivedPrefix == <<"S","y","s","t","e","m"," ","c","o","n","t","e","x","t"," ","f","r","o","m"," ">>

\* the chunks of a retrieval result that carry recognizable markers
UsableChunks(rv) ==
    IF rv.kind # "list" THEN {}
    ELSE {i \in 1..Len(rv.items) : IsSystemFile(rv.items[i].filename)}

\* the description assembled from a retrieval result, or the static fallback
BuildSystemContext(rv) ==
    IF UsableChunks(rv) = {} THEN StaticSystemContext
    ELSE LET i == CHOOSE x \in UsableChunks(rv) : \A y \in UsableChunks(rv) : x <= y
         IN  DerivedPrefix \o rv.items[i].filename

\* a variant of NeedsRefresh in which a loaded snapshot never expires
NeedsRefreshNeverExpires == ctx_state = "EMPTY"

\* EMPTY, or the snapshot is older than the time-to-live
NeedsRefresh == ctx_state = "EMPTY" \/ now - ctx_generated_at >= CacheTTL

\* get_system_context(): a synchronous refresh when needed, then the snapshot
GetSystemContext ==
    /\ ctx_calls < MaxCalls
    /\ ctx_calls' = ctx_calls + 1
    /\ IF NeedsRefresh
       THEN \E o \in SearchOutcomes :
               /\ ctx_text' = BuildSystemContext(SemanticSearch(o))
               /\ ctx_state' = "LOADED"
               /\ ctx_generated_at' = now
               /\ ctx_retrievals' = ctx_retrievals + 1
       ELSE UNCHANGED << ctx_text, ctx_state, ctx_generated_at, ctx_retrievals >>
    /\ ctx_returned' = ctx_text'
    /\ UNCHANGED << now, pipelineVars, helperVars, serverVars >>

\* time passes
Tick ==
    /\ now < MaxTicks * ClockStep
    /\ now' = now + ClockStep
    /\ UNCHANGED << ctx_state, ctx_text, ctx_generated_at, ctx_retrievals, ctx_calls,
                    ctx_returned, pipelineVars, helperVars, serverVars >>

--------------------------------------------------------------------------
(* Specifications *)

Next ==
    \/ Start
    \/ AnalyzeQuery
    \/ Retrieve
    \/ Format
    \/ BuildPrompt
    \/ Generate
    \/ Analyze
    \/ Return

\* the query pipeline
Spec == Init /\ [][Next]_vars

CacheNext ==
    \/ GetSystemContext
    \/ Tick

\* the system context cache
CacheSpec == Init /\ [][CacheNext]_vars


--------------------------------------------------------------------------
(* Properties *)

Finished == pc \in {"done", "error"}

\* the arguments are of the types process_query expects
WellFormedCall == model_params = DictParams /\ vector_db_options.kind # "list"

\* the stage the call is at raises an exception
StageRaises ==
    \/ pc = "analyze_query" /\ AnalysisParams(model_params).raised
    \/ pc = "retrieve"
         /\ PrepareSearchOptions(vector_db_options, FastTopK).raised
    \/ pc = "format" /\ FormatSearchResults(relevant_chunks, fast_mode).raised
    \/ pc = "generate" /\ PrepareModelOptions(model_params).raised
    \/ pc = "analyze"
         /\ \/ ExtractCitationsFromSearch(response, relevant_chunks).raised
            \/ /\ fast_mode = "detailed"
               /\ GenerateReasoningChain(user_message, relevant_chunks, analysis).raised

\* C1: whenever a stage of process_query raises, the call ends with a returned
\* result whose processing_mode is 'error', whose citations are empty, whose
\* confidence_score is 1, whose context_chunks_used is 0 and whose response
\* text is not empty.
C1_ErrorResultOnRaise ==
    [][StageRaises =>
          /\ pc' = "error"
          /\ result'.processing_mode = "error"
          /\ result'.citations = <<>>
          /\ result'.confidence_score = 1000
          /\ result'.context_chunks_used = 0
          /\ result'.response # <<>>]_vars

\* a detailed query whose reasoning chain raised the KeyError has ended in the error result
C1_Witness == pc = "error" /\ result.error_type = "KeyError"

\* the search request of this call failed or brought no results
SearchFailedOrEmpty ==
    /\ search_requests # <<>>
    /\ \/ search_requests[1].outcome \in SearchFailures \cup {"no_results_key"}
       \/ search_requests[1].outcome = "ok" /\ relevant_chunks = ResultList(<<>>)

\* the prompt of the answer call holds the 'no context found' sentinel
PromptHasSentinel ==
    \E i \in 1..Len(prompt) :
        /\ prompt[i].kind = "context"
        /\ \E k \in 1..Len(prompt[i].content) :
              /\ prompt[i].content[k].kind = "text"
              /\ Contains(prompt[i].content[k].text, NoContextSentinel)

\* C2: when the search fails or brings no results, a call with well-formed
\* arguments ends, in either mode, with a result whose processing_mode is not
\* 'error' and whose context_chunks_used is 0, and the prompt sent to the
\* generative backend holds the sentinel.
C2_GracefulDegradation ==
    (Finished /\ WellFormedCall /\ SearchFailedOrEmpty) =>
        /\ result.processing_mode # "error"
        /\ result.context_chunks_used = 0
        /\ PromptHasSentinel

\* the answer request of this call timed out, got a non-success status or
\* could not reach the backend
AnswerGenerationFailed ==
    \E i \in 1..Len(generate_requests) :
        /\ generate_requests[i].purpose = "answer"
        /\ generate_requests[i].outcome \in {"timeout", "http_error", "unreachable"}

\* C3: when the answer generation times out, gets a non-success status or
\* cannot reach the backend, the result's response is the error string of the
\* generation client, its processing_mode is 'error' and its confidence_score is 1.
C3_GenerationFailureIsError ==
    (Finished /\ WellFormedCall /\ AnswerGenerationFailed) =>
        /\ result.response = response
        /\ result.processing_mode = "error"
        /\ result.confidence_score = 1000

\* C4: every citation of a returned result names the file of some chunk of
\* the retrieval result of the same call.
C4_CitationsFromRetrievedSet ==
    Finished =>
        \A i \in 1..Len(result.citations) :
            \E j \in 1..Len(relevant_chunks.items) :
                relevant_chunks.items[j].filename = result.citations[i].file

\* a result with a citation whose answer text also names a file that was not retrieved
C4_Witness ==
    /\ pc = "done"
    /\ Len(result.citations) >= 1
    /\ \E f \in FileNames :
          /\ IsCited(f, response)
          /\ f \notin ResultFilenames(relevant_chunks.items)

\* C5: every returned result has a confidence_score from 1 to 10.
C5_ConfidenceBounds ==
    Finished => (1000 <= result.confidence_score /\ result.confidence_score <= 10000)

\* a detailed result whose stated confidence (85) was above the range
C5_Witness ==
    /\ pc = "done"
    /\ fast_mode = "detailed"
    /\ result.confidence_score = 10000
    /\ SearchLabelled(Lower(response), <<"c","o","n","f","i","d","e","n","c","e">>) = {85000}

\* C6: when retrieval brings an empty result set, the result has
\* confidence_score 3, no citations and context_chunks_used 0, in both modes.
C6_EmptyRetrievalConfidence ==
    (Finished /\ WellFormedCall /\ search_requests # <<>>
       /\ relevant_chunks = ResultList(<<>>)) =>
        /\ result.confidence_score = 3000
        /\ result.citations = <<>>
        /\ result.context_chunks_used = 0

\* C7: in every formatted context the entries of system chunks come before
\* the entries of user chunks.
C7_SystemEntriesFirst ==
    \A i, j \in 1..Len(context_content) :
        (/\ i < j
         /\ context_content[i].kind = "chunk"
         /\ context_content[j].kind = "chunk"
         /\ IsSystemFile(context_content[j].filename))
            => IsSystemFile(context_content[i].filename)

\* C8: a get_system_context call never returns the empty string; a call made
\* while the snapshot is younger than 300 seconds issues no retrieval call and
\* returns what the call before it returned; a call made when there is no
\* snapshot or the snapshot is 300 seconds old or older issues exactly one.
C8_CacheTimeToLive ==
    [][(ctx_calls' = ctx_calls + 1) =>
          /\ ctx_returned' # <<>>
          /\ (ctx_state = "LOADED" /\ now - ctx_generated_at < 300) =>
                (ctx_retrievals' = ctx_retrievals /\ ctx_returned' = ctx_returned)
          /\ (ctx_state = "EMPTY" \/ now - ctx_generated_at >= 300) =>
                ctx_retrievals' = ctx_retrievals + 1]_vars

\* three calls: the first loaded, the second was served from the snapshot,
\* the third came after the time-to-live and refreshed
C8_Witness == ctx_calls = 3 /\ ctx_retrievals = 2 /\ now >= 300

\* the stages of a call in the order the code runs them
StageOrder(mode) ==
    (IF mode = "detailed" THEN << "START", "analyze_query" >> ELSE << "START" >>)
        \o << "retrieve", "format", "prompt", "generate", "analyze" >>

IsPrefix(s, t) == Len(s) <= Len(t) /\ SubSeq(t, 1, Len(s)) = s

\* C9: the stages of a call are entered in the order retrieve, format, prompt,
\* generate, analyze and the call ends in DONE after all of them or in ERROR
\* after some of them; a fast call sends no analysis request, and a detailed
\* call has its analysis request answered before its search request is sent.
C9_StageOrder ==
    /\ pc = "done" => trace = StageOrder(fast_mode) \o << "DONE" >>
    /\ pc = "error" =>
          /\ Len(trace) >= 2
          /\ trace[Len(trace)] = "ERROR"
          /\ IsPrefix(SubSeq(trace, 1, Len(trace) - 1), StageOrder(fast_mode))
    /\ pc \notin {"idle", "done", "error"} =>
          /\ IsPrefix(trace, StageOrder(fast_mode))
          /\ StageOrder(fast_mode)[Len(trace) + 1] = pc
    /\ \A i \in 1..Len(generate_requests) :
          generate_requests[i].purpose = "analysis" => (fast_mode = "detailed" /\ i = 1)
    /\ (fast_mode = "detailed" /\ search_requests # <<>>) =>
          (generate_requests # <<>> /\ generate_requests[1].purpose = "analysis")

\* a detailed call that ran to DONE with its two generation requests
C9_Witness ==
    /\ pc = "done"
    /\ fast_mode = "detailed"
    /\ Len(generate_requests) = 2
    /\ Len(search_requests) = 1

\* C10: for every upstream failure and every body of unexpected shape the
\* retrieval client returns the empty list.
C10_EmptyListOnUpstreamFailure ==
    (search_requests # <<>> /\ search_requests[1].outcome # "ok") =>
        relevant_chunks = ResultList(<<>>)


--------------------------------------------------------------------------
(* Properties of the external calls *)

\* the stage has been passed by this call without raising
Passed(stage) ==
    \E i \in 1..Len(trace) :
        /\ trace[i] = stage
        /\ ~(i < Len(trace) /\ trace[i + 1] = "ERROR")

\* the purposes of the generation requests one call of the mode sends
GenerationCalls(mode) ==
    IF mode = "detailed" THEN << "analysis", "answer" >> ELSE << "answer" >>

--------------------------------------------------------------------------
(* The helper functions of the pipeline, each called on its own with       *)
(* arguments drawn from bounded sets                                       *)

\* the longest result list handed to a helper
MaxHelperChunks == 3

\* the longest result list handed to _estimate_confidence
MaxScoredChunks == 5

\* the result lists in the order the search service answers with: by
\* decreasing similarity
RankedResults ==
    {s \in SeqsUpTo(ChunkPool, MaxScoredChunks) :
        \A i \in 1..(Len(s) - 1) : s[i].similarity >= s[i + 1].similarity}

\* _extract_citations_from_search(response, search_results)
ExtractCitationsCall ==
    /\ fn = "none"
    /\ \E text \in ResponseTexts, items \in SeqsUpTo(ChunkPool, MaxHelperChunks) :
          /\ fn' = "_extract_citations_from_search"
          /\ args' = [response |-> text, search_results |-> items]
          /\ out' \in ExtractCitationsFromSearch(text, ResultList(items)).value
    /\ UNCHANGED << pipelineVars, cacheVars, serverVars >>

\* _estimate_confidence(search_results, query, mode)
EstimateConfidenceCall ==
    /\ fn = "none"
    /\ \E items \in RankedResults, query \in {QShort, Q16, Q21}, mode \in {"fast", "detailed"} :
          /\ fn' = "_estimate_confidence"
          /\ args' = [search_results |-> items, query |-> query, mode |-> mode]
          /\ out' \in EstimateConfidence(ResultList(items), query, mode)
    /\ UNCHANGED << pipelineVars, cacheVars, serverVars >>

\* the most parameters one model_params dict carries
MaxParamKeys == 2

\* the values tried for a key: below, inside and above its range, the
\* sentinel -1, a fraction, and the floats that are not finite
ParamChoices(key) ==
    IF key = "temperature" THEN {Finite(-500), Finite(700), Finite(2500), Infinite, NegInfinite, NotANumber}
    ELSE IF key = "top_p" THEN {Finite(-100), Finite(900), Finite(1500), NotANumber}
    ELSE IF key = "top_k" THEN {Finite(0), Finite(40000), Finite(150000), Finite(-3000), Infinite, NotANumber}
    ELSE IF key = "repeat_penalty" THEN {Finite(100), Finite(1100), Finite(3000)}
    ELSE IF key = "seed" THEN {Finite(-1000), Finite(42000), Finite(-7000)}
    ELSE {Finite(-1000), Finite(0), Finite(256000), Finite(-5000)}

RECURSIVE ParamsUpTo(_)
ParamsUpTo(n) ==
    IF n = 0 THEN {NoFields}
    ELSE LET fewer == ParamsUpTo(n - 1)
         IN  fewer \cup {[p EXCEPT ![k] = v] :
                            p \in fewer, <<k, v>> \in UNION {{k} \X ParamChoices(k) : k \in DOMAIN NoFields}}

\* _prepare_model_options(model_params)
PrepareModelOptionsCall ==
    /\ fn = "none"
    /\ \E fields \in ParamsUpTo(MaxParamKeys) :
          /\ fn' = "_prepare_model_options"
          /\ args' = [model_params |-> [kind |-> "dict", fields |-> fields]]
          /\ out' = PrepareModelOptions([kind |-> "dict", fields |-> fields])
    /\ UNCHANGED << pipelineVars, cacheVars, serverVars >>

\* the longest conversation history handed to a mode
MaxTurns == 6

\* the turns of a history: two short ones and one whose message and response
\* are one character longer than what the block shows of them
TurnPool ==
    { Turn(<<"H","i">>, <<"H","e","l","l","o">>),
      Turn(<<"W","h","y","?">>, <<"B","e","c","a","u","s","e",".">>),
      Turn([i \in 1..(MessageBudget + 1) |-> "m"], [i \in 1..(ResponseBudget + 1) |-> "r"]) }

\* the conversation block of a prompt, lines 138-140 and 195-197
ConversationContextCall ==
    /\ fn = "none"
    /\ \E mode \in {"fast", "detailed"}, history \in SeqsUpTo(TurnPool, MaxTurns) :
          /\ fn' = "conversation_context"
          /\ args' = [mode |-> mode, history |-> history]
          /\ out' = ConversationContext(mode, history)
    /\ UNCHANGED << pipelineVars, cacheVars, serverVars >>

\* the longest conversation log handed to the history filter
MaxLogTurns == 7

\* the conversation logs: the turns of up to three conversations in any
\* order, numbered in the order they were appended
ChatLogs ==
    UNION {{[i \in 1..n |-> ChatEntry(i, ids[i], <<"h","i">>, "fast")] :
               ids \in [1..n -> {"default", "A", "B"}]} : n \in 0..MaxLogTurns}

\* conversation_history of enhanced_vectorized_chat, lines 828-832
ConversationHistoryCall ==
    /\ fn = "none"
    /\ \E log \in ChatLogs, cid \in {<<>>, << "A" >>, << "B" >>} :
          /\ fn' = "conversation_history"
          /\ args' = [chat_history |-> log, conversation_id |-> cid]
          /\ out' = ConversationHistory(log, Get(cid, "default"))
    /\ UNCHANGED << pipelineVars, cacheVars, serverVars >>

\* bounds of the chunking calls: the words of a text and the chunk size
MaxWords == 4
MaxChunkSize == 3

\* for i in range(0, len(words), chunk_size - overlap): chunk_words =
\* words[i:i + chunk_size], embedding-proxy lines 364-367 and embedding-service
\* lines 441-448.  A text is the list of its words, text.split(); range raises
\* ValueError for a step of zero and is empty for a negative one
ChunkLoop(words, chunk_size, overlap) ==
    LET step == chunk_size - overlap
        n == Len(words)
    IN  IF step = 0
        THEN Raise(Exc("ValueError", <<"r","a","n","g","e","(",")"," ","a","r","g"," ","3"," ","m","u","s","t"," ","n","o","t"," ","b","e"," ","z","e","r","o">>))
        ELSE IF step < 0 \/ n = 0 THEN Ret(<<>>)
        ELSE Ret([k \in 1..(((n - 1) \div step) + 1) |->
                     LET i == (k - 1) * step
                     IN  [text |-> SubSeq(words, i + 1, Min(i + chunk_size, n)),
                          start_index |-> i,
                          end_index |-> Min(i + chunk_size, n)]])

\* _chunk_text of the embedding proxy, lines 359-369: the joined words of
\* each chunk, or the text itself as the only chunk when there is none
ProxyChunkText(words, chunk_size, overlap) ==
    LET chunks == ChunkLoop(words, chunk_size, overlap)
    IN  IF chunks.raised THEN chunks
        ELSE IF chunks.value = <<>> THEN Ret(<< words >>)
        ELSE Ret([k \in 1..Len(chunks.value) |-> chunks.value[k].text])

\* _chunk_text of the embedding service, lines 436-450: text, start_index
\* and end_index of each chunk
ServiceChunkText(words, chunk_size, overlap) == ChunkLoop(words, chunk_size, overlap)

\* _chunk_text(text, chunk_size, overlap) as the document endpoints call it:
\* chunk_size and overlap come from the request as they are
ChunkTextCall ==
    /\ fn = "none"
    /\ \E n \in 0..MaxWords, chunk_size \in 1..MaxChunkSize,
          overlap \in 0..(MaxChunkSize + 1), app \in {"embedding-proxy", "embedding-service"} :
          LET words == [i \in 1..n |-> i]
          IN  /\ fn' = "_chunk_text"
              /\ args' = [app |-> app, words |-> words, chunk_size |-> chunk_size,
                          overlap |-> overlap]
              /\ out' = IF app = "embedding-proxy"
                        THEN ProxyChunkText(words, chunk_size, overlap)
                        ELSE ServiceChunkText(words, chunk_size, overlap)
    /\ UNCHANGED << pipelineVars, cacheVars, serverVars >>

\* the caller has the value
HelperReturn ==
    /\ fn # "none"
    /\ fn' = "none"
    /\ args' = <<>>
    /\ out' = <<>>
    /\ UNCHANGED << pipelineVars, cacheVars, serverVars >>

HelperNext ==
    \/ ExtractCitationsCall
    \/ EstimateConfidenceCall
    \/ PrepareModelOptionsCall
    \/ ConversationContextCall
    \/ ConversationHistoryCall
    \/ ChunkTextCall
    \/ HelperReturn

\* the helper functions
HelperSpec == Init /\ [][HelperNext]_vars

--------------------------------------------------------------------------
(* Properties of the response analysis *)

\* C12: the citation list holds at most one citation per filename, the
\* relevance of each citation is the mean similarity of the retrieved chunks
\* of its file (to the three decimals it is printed with), and the list is
\* in the order of non-increasing relevance.
C12_CitationsByMeanRelevance ==
    fn = "_extract_citations_from_search" =>
        /\ \A i, j \in 1..Len(out) : i # j => out[i].file # out[j].file
        /\ \A i \in 1..Len(out) :
              LET idx == {k \in 1..Len(args.search_results) :
                             args.search_results[k].filename = out[i].file}
                  total == SumSeq([k \in 1..Len(args.search_results) |->
                                      IF k \in idx THEN args.search_results[k].similarity
                                      ELSE 0])
                  diff == out[i].relevance * Cardinality(idx) - total
              IN  /\ idx # {}
                  /\ 2 * diff <= Cardinality(idx)
                  /\ -2 * diff <= Cardinality(idx)
        /\ \A i \in 1..(Len(out) - 1) : out[i].relevance >= out[i + 1].relevance

\* C13: a non-empty filename of the retrieved chunks is cited if and only if
\* the generated text contains the marker '[Source: <filename>]' or contains
\* the filename compared without regard to case; the empty filename is never
\* cited.
C13_CitedIffNamed ==
    fn = "_extract_citations_from_search" =>
        /\ \A k \in 1..Len(args.search_results) :
              LET f == args.search_results[k].filename
              IN  f # <<>> =>
                    ((\E i \in 1..Len(out) : out[i].file = f)
                       <=> \/ Contains(args.response, <<"[","S","o","u","r","c","e",":"," ">> \o f \o <<"]">>)
                           \/ Contains(Lower(args.response), Lower(f)))
        /\ \A i \in 1..Len(out) : out[i].file # <<>>

\* config.json is cited for a text that names it in capitals only, while
\* another retrieved file, not named in the text, is not cited
C13_Witness ==
    /\ fn = "_extract_citations_from_search"
    /\ \E i \in 1..Len(out) :
          /\ out[i].file = <<"c","o","n","f","i","g",".","j","s","o","n">>
          /\ ~Contains(args.response, <<"c","o","n","f","i","g",".","j","s","o","n">>)
    /\ \E k \in 1..Len(args.search_results) :
          /\ args.search_results[k].filename # <<>>
          /\ \A i \in 1..Len(out) : out[i].file # args.search_results[k].filename

\* no pattern of _extract_confidence_from_response finds a number in the text
NoNumberParsed(text) ==
    /\ SearchLabelled(Lower(text), <<"c","o","n","f","i","d","e","n","c","e">>) = {}
    /\ SearchLazy(Lower(text)) = {}
    /\ SearchOutOfTen(Lower(text)) = {}
    /\ SearchLabelled(Lower(text), <<"c","e","r","t","a","i","n","t","y">>) = {}

\* C14: in detailed mode, when no confidence number can be parsed from the
\* generated text, a text containing 'uncertain' or 'might' gets a confidence
\* below the default 7, a text containing 'certain' or 'definitely' and
\* neither of the former gets one above 7, and every other text gets 7.
C14_KeywordFallback ==
    (pc = "done" /\ fast_mode = "detailed" /\ NoNumberParsed(response)) =>
        LET t == Lower(response)
            low == Contains(t, <<"u","n","c","e","r","t","a","i","n">>) \/ Contains(t, <<"m","i","g","h","t">>)
            high == Contains(t, <<"c","e","r","t","a","i","n">>) \/ Contains(t, <<"d","e","f","i","n","i","t","e","l","y">>)
        IN  /\ low => result.confidence_score < 7000
            /\ (high /\ ~low) => result.confidence_score > 7000
            /\ (~high /\ ~low) => result.confidence_score = 7000

\* n times the sum the heuristic adds up for a non-empty result list of n
\* chunks, in thousandths: base(mode) + similarity_bonus + count_bonus +
\* complexity_penalty + quality_bonus
ConfidenceSumTimesN(items, query, mode) ==
    LET n == Len(items)
        sum == SumSeq([i \in 1..n |-> items[i].similarity])
        words == WordCount(query)
        base == IF mode = "detailed" THEN 6000 ELSE 5000
        similarity_bonus ==
            IF sum <= 250 * n THEN 0
            ELSE IF sum <= 400 * n THEN 500
            ELSE IF sum <= 600 * n THEN 1500
            ELSE IF sum <= 800 * n THEN 2500
            ELSE 3500
        count_bonus == IF n >= 5 THEN 1000 ELSE IF n >= 3 THEN 500 ELSE 0
        complexity_penalty == IF words > 20 THEN -1000 ELSE IF words > 15 THEN -500 ELSE 0
        excellent == Cardinality({i \in 1..n : items[i].quality_score = "excellent"})
        high == Cardinality({i \in 1..n : items[i].quality_score = "high"})
    IN  n * (base + similarity_bonus + count_bonus + complexity_penalty)
          + 500 * excellent + 300 * high

\* two result lists of the same length with the same numbers of 'excellent'
\* and of 'high' labels
SameCountAndLabels(a, b) ==
    /\ Len(a) = Len(b)
    /\ \A l \in {"excellent", "high"} :
          Cardinality({i \in 1..Len(a) : a[i].quality_score = l})
            = Cardinality({i \in 1..Len(b) : b[i].quality_score = l})

\* with count, query and labels fixed, a list of higher average similarity
\* adds up to no less, and where it adds up to more it scores no less
NeverDecreasesWithSimilarity ==
    \A other \in RankedResults :
        (/\ SameCountAndLabels(args.search_results, other)
         /\ SumSeq([i \in 1..Len(other) |-> other[i].similarity])
              > SumSeq([i \in 1..Len(other) |-> args.search_results[i].similarity]))
        => LET mine == ConfidenceSumTimesN(args.search_results, args.query, args.mode)
               theirs == ConfidenceSumTimesN(other, args.query, args.mode)
           IN  /\ theirs >= mine
               /\ theirs > mine =>
                     \A c \in EstimateConfidence(ResultList(other), args.query, args.mode) :
                         c >= out

\* C15: for a non-empty chunk set the heuristic confidence is
\* clamp(base(mode) + similarity_bonus + count_bonus + complexity_penalty +
\* quality_bonus, 1, 10) rounded to one decimal, with base(detailed) 6 and
\* base(fast) 5 and a similarity bonus of zero for an average at or below
\* 0.25; with count, query and labels fixed it never decreases when the
\* average similarity increases.
C15_HeuristicConfidence ==
    (fn = "_estimate_confidence" /\ args.search_results # <<>>) =>
        LET n == Len(args.search_results)
            x == ConfidenceSumTimesN(args.search_results, args.query, args.mode)
            clamped == Max(1000 * n, Min(10000 * n, x))
        IN  /\ out % 100 = 0
            /\ 2 * (n * out - clamped) <= 100 * n
            /\ 2 * (clamped - n * out) <= 100 * n
            /\ NeverDecreasesWithSimilarity

\* the statement without the rounding: the confidence equals the clamped sum
C15_HeuristicConfidenceExact ==
    (fn = "_estimate_confidence" /\ args.search_results # <<>>) =>
        LET n == Len(args.search_results)
            x == ConfidenceSumTimesN(args.search_results, args.query, args.mode)
        IN  /\ n * out = Max(1000 * n, Min(10000 * n, x))
            /\ NeverDecreasesWithSimilarity

\* two chunks whose average similarity is exactly the threshold 0.25 score
\* the base of fast mode, and a list of higher average scores more
C15_Witness ==
    /\ fn = "_estimate_confidence"
    /\ args.mode = "fast"
    /\ Len(args.search_results) = 2
    /\ args.search_results[1].similarity + args.search_results[2].similarity = 500
    /\ out = 5000
    /\ \E other \in RankedResults :
          /\ SameCountAndLabels(args.search_results, other)
          /\ \E c \in EstimateConfidence(ResultList(other), args.query, args.mode) : c > out

--------------------------------------------------------------------------
(* Properties of the generation parameters *)

\* the option is sent with a value from lo to hi, the input itself when the
\* input is a finite number of that range
ClampedOption(key, lo, hi) ==
    LET input == args.model_params.fields[key]
        option == out.value[key]
    IN  input.num # "absent" =>
            /\ option.num = "finite"
            /\ lo <= option.v /\ option.v <= hi
            /\ (input.num = "finite" /\ lo <= input.v /\ input.v <= hi) => option.v = input.v

\* C16: parameters outside their ranges are clamped, not rejected: for every
\* numeric input the call returns options with temperature in [0,2], top_p in
\* [0,1], top_k in [1,100] and repeat_penalty in [0.5,2], each equal to the
\* input when the input is in range; seed and num_predict are left out when
\* they are -1, and num_predict is otherwise at least 1.
C16_ParametersClamped ==
    fn = "_prepare_model_options" =>
        /\ ~out.raised
        /\ ClampedOption("temperature", 0, 2000)
        /\ ClampedOption("top_p", 0, 1000)
        /\ ClampedOption("top_k", 1000, 100000)
        /\ ClampedOption("repeat_penalty", 500, 2000)
        /\ \A key \in {"seed", "num_predict"} :
              args.model_params.fields[key] = Finite(-1000) => out.value[key] = Absent
        /\ args.model_params.fields["num_predict"] \notin {Absent, Finite(-1000)} =>
              (out.value["num_predict"].num = "finite" /\ out.value["num_predict"].v >= 1000)

--------------------------------------------------------------------------
(* Properties of the prompt *)

\* C17: the conversation block of a prompt holds the most recent 3 turns of
\* the history in fast mode and the most recent 5 in detailed mode, in their
\* order, with the first 150 characters of each message and the first 200 of
\* each response at most; for an empty history the block is empty.
C17_HistoryBlock ==
    fn = "conversation_context" =>
        LET history == args.history
            limit == IF args.mode = "fast" THEN 3 ELSE 5
            shown == IF Len(history) < limit THEN Len(history) ELSE limit
            skipped == Len(history) - shown
        IN  /\ Len(out) = shown
            /\ \A i \in 1..shown :
                  LET turn == history[skipped + i]
                  IN  /\ Len(out[i].message) <= 150
                      /\ Len(out[i].response) <= 200
                      /\ IsPrefix(out[i].message, turn.message)
                      /\ IsPrefix(out[i].response, turn.response)
                      /\ Len(out[i].message) < 150 => out[i].message = turn.message
                      /\ Len(out[i].response) < 200 => out[i].response = turn.response
            /\ history = <<>> => out = <<>>

\* a fast-mode block of a history of more than three differing turns, the
\* oldest of which is left out, with a message cut to 150 characters
C17_Witness ==
    /\ fn = "conversation_context"
    /\ args.mode = "fast"
    /\ Len(args.history) > 3
    /\ args.history[1] # args.history[Len(args.history) - 2]
    /\ Len(out) = 3
    /\ \E i \in 1..3 :
          /\ Len(out[i].message) = 150
          /\ Len(args.history[Len(args.history) - 3 + i].message) = 151

\* the place of a block in the order: system context, conduct instruction,
\* conversation history, retrieval context, user query, instruction suffix
BlockRank(kind) ==
    IF kind = "system_context" THEN 1
    ELSE IF kind = "task" THEN 2
    ELSE IF kind = "history" THEN 3
    ELSE IF kind = "context" THEN 4
    ELSE IF kind = "question" THEN 5
    ELSE IF kind = "instructions" THEN 6
    ELSE 0

\* C18: the blocks of every prompt built for the answer call come, in both
\* modes, in the order system context, conduct instruction, conversation
\* history, retrieval context, user query, instruction suffix; the retrieval
\* context comes before the user query.
C18_PromptBlockOrder ==
    \A i, j \in 1..Len(prompt) :
        (i < j /\ BlockRank(prompt[i].kind) > 0 /\ BlockRank(prompt[j].kind) > 0)
            => BlockRank(prompt[i].kind) < BlockRank(prompt[j].kind)

--------------------------------------------------------------------------
(* Properties of the formatted context and of the reasoning chain *)

\* C19: in detailed mode every chunk entry of the formatted context shows the
\* quality label of the chunk's own similarity: 'excellent' from 0.8, 'high'
\* from 0.6, 'good' from 0.4, 'fair' from the minimum threshold, else 'low'.
C19_DerivedQualityLabel ==
    fast_mode = "detailed" =>
        \A i \in 1..Len(context_content) :
            context_content[i].kind = "chunk" =>
                context_content[i].quality
                    = CalculateQualityScore(context_content[i].similarity)

\* the names of the stages of the result's reasoning chain
ChainStages ==
    [i \in 1..Len(result.reasoning_chain) |-> result.reasoning_chain[i].stage]

\* C20: a detailed call with well-formed arguments that got its answer from
\* the generative backend returns, for every retrieved list including the
\* empty one, a reasoning chain of the six stages decomposition,
\* evidence_gathering, pattern_identification, hypothesis_formation,
\* verification, synthesis in that order, and the result keeps the mode
\* 'detailed', the generated text, the citations extracted from it and the
\* confidence read from it.
C20_ReasoningChain ==
    (/\ Finished
     /\ WellFormedCall
     /\ fast_mode = "detailed"
     /\ relevant_chunks.kind = "list"
     /\ Passed("generate")) =>
        /\ ChainStages = << "decomposition", "evidence_gathering", "pattern_identification",
                            "hypothesis_formation", "verification", "synthesis" >>
        /\ result.processing_mode = "detailed"
        /\ result.response = response
        /\ result.citations \in ExtractCitationsFromSearch(response, relevant_chunks).value
        /\ result.confidence_score = ExtractConfidenceFromResponse(response)

\* the positions of the log that hold a turn of the conversation
OwnTurns(log, conversation_id) ==
    {i \in 1..Len(log) : log[i].conversation_id = conversation_id}

\* C24: the history handed to the pipeline for a chat request holds only
\* turns of the request's conversation (a missing id counts as 'default'):
\* the 5 most recent of them, or all when there are fewer, in log order
C24_HistoryOfOwnConversation ==
    fn = "conversation_history" =>
        LET log == args.chat_history
            cid == IF args.conversation_id = <<>> THEN "default"
                   ELSE args.conversation_id[1]
            own == OwnTurns(log, cid)
        IN  /\ Len(out) = IF Cardinality(own) <= 5 THEN Cardinality(own) ELSE 5
            /\ \A k \in 1..Len(out) : out[k].conversation_id = cid
            /\ \A i \in own :
                   LET later == Cardinality({j \in own : j > i})
                   IN  later < 5 => out[Len(out) - later] = log[i]

\* a conversation of more than 5 turns, with turns of another conversation
\* among its latest, was read
C24_Witness ==
    /\ fn = "conversation_history"
    /\ args.conversation_id = <<>>
    /\ Cardinality(OwnTurns(args.chat_history, "default")) > 5
    /\ args.chat_history[Len(args.chat_history) - 1].conversation_id = "B"
    /\ Len(out) = 5

\* C23: the low-temperature override of the query analysis is local to the
\* analysis call: the analysis leaves the caller's parameters as they are,
\* its request carries temperature 0.3 and top_k 20, and the answer request
\* of the same detailed query carries the caller's own temperature and
\* top_k, clamped to [0,2] and [1,100]
C23_OverrideIsLocal ==
    /\ [][pc = "analyze_query" => model_params' = model_params]_vars
    /\ [](\A i \in 1..Len(generate_requests) :
             LET sent == generate_requests[i].options
             IN  IF generate_requests[i].purpose = "analysis"
                 THEN sent["temperature"] = Finite(300) /\ sent["top_k"] = Finite(20000)
                 ELSE \A key \in {"temperature", "top_k"} :
                         LET own == IF model_params.kind = "str" THEN Absent
                                    ELSE model_params.fields[key]
                             lo == IF key = "top_k" THEN 1000 ELSE 0
                             hi == IF key = "top_k" THEN 100000 ELSE 2000
                         IN  IF own.num = "finite"
                             THEN /\ sent[key].num = "finite"
                                  /\ sent[key].v >= lo /\ sent[key].v <= hi
                                  /\ (own.v >= lo /\ own.v <= hi) => sent[key].v = own.v
                                  /\ own.v > hi => sent[key].v = hi
                             ELSE sent[key] = Absent)

\* a detailed query with temperature 2.5 and top_k 50 sent its analysis with
\* 0.3 and 20 and its answer with 2.0 and 50
C23_Witness ==
    /\ fast_mode = "detailed"
    /\ Len(generate_requests) = 2
    /\ generate_requests[1].purpose = "analysis"
    /\ generate_requests[1].options["temperature"] = Finite(300)
    /\ generate_requests[1].options["top_k"] = Finite(20000)
    /\ generate_requests[2].purpose = "answer"
    /\ generate_requests[2].options["temperature"] = Finite(2000)
    /\ generate_requests[2].options["top_k"] = Finite(50000)

\* the words of the k-th chunk returned
ChunkWords(k) ==
    IF args.app = "embedding-proxy" THEN out.value[k] ELSE out.value[k].text

\* C30: for every text, chunk_size >= 1 and overlap >= 0 the chunking ends
\* without an error and returns chunks of at most chunk_size words that
\* together hold every word of the text, each chunk starting
\* chunk_size - overlap words after the one before it; overlap >= chunk_size
\* and the empty text included
C30_ChunkingIsTotal ==
    fn = "_chunk_text" =>
        /\ ~out.raised
        /\ \A k \in 1..Len(out.value) : Len(ChunkWords(k)) <= args.chunk_size
        /\ \A w \in 1..Len(args.words) :
               \E k \in 1..Len(out.value) :
                   \E j \in 1..Len(ChunkWords(k)) : ChunkWords(k)[j] = args.words[w]
        /\ \A k \in 1..(Len(out.value) - 1) :
               ChunkWords(k + 1)[1] = ChunkWords(k)[1] + args.chunk_size - args.overlap
--------------------------------------------------------------------------
(* The chat endpoints: POST /api/chat and DELETE /api/chat/history.  The   *)
(* server handles each request on a thread of its own and the handlers     *)
(* take no lock, so their accesses to chat_history interleave              *)

\* the thread a new request is handed to: the first that handles none (0 when
\* all are busy)
FreeThread ==
    IF \A t \in ThreadIds : threads[t].op # "idle" THEN 0
    ELSE CHOOSE t \in ThreadIds :
             /\ threads[t].op = "idle"
             /\ \A u \in ThreadIds : threads[u].op = "idle" => t <= u

\* enhanced_vectorized_chat reads the request, lines 811-820
ChatRequest(t) ==
    /\ t = FreeThread
    /\ served < MaxRequests
    /\ served' = served + 1
    /\ \E cid \in ChatConversationIds, msg \in ChatMessages :
          threads' = [threads EXCEPT ![t] =
              [IdleThread EXCEPT !.op = "chat", !.pc = "validate",
                  !.request = served + 1,
                  !.conversation_id = Get(cid, "default"),
                  !.message = Get(msg, <<>>)]]
    /\ UNCHANGED << chat_history, list_id, backend_requests, responses >>
    /\ UNCHANGED << pipelineVars, cacheVars, helperVars, fileVars, configVars >>

\* lines 822-832: a blank message is answered with 400, else the turns of the
\* conversation are read
ChatValidate(t) ==
    /\ threads[t].op = "chat"
    /\ threads[t].pc = "validate"
    /\ IF Strip(threads[t].message) = <<>>
       THEN /\ responses' = responses \cup {Response(threads[t].request, "chat", 400, 0)}
            /\ threads' = [threads EXCEPT ![t] = IdleThread]
       ELSE /\ threads' = [threads EXCEPT ![t].pc = "process",
                   ![t].conversation_history =
                       ConversationHistory(chat_history, threads[t].conversation_id)]
            /\ UNCHANGED responses
    /\ UNCHANGED << chat_history, list_id, served, backend_requests >>
    /\ UNCHANGED << pipelineVars, cacheVars, helperVars, fileVars, configVars >>

\* rag_pipeline.process_query(...), lines 835-842
ChatProcess(t) ==
    /\ threads[t].op = "chat"
    /\ threads[t].pc = "process"
    /\ \E run \in ProcessQueryRuns :
          /\ threads' = [threads EXCEPT ![t].pc = "load",
                                        ![t].processing_mode = run.processing_mode]
          /\ backend_requests' = backend_requests \cup
                 {[request |-> threads[t].request, kind |-> run.requests[i]] :
                      i \in 1..Len(run.requests)}
    /\ UNCHANGED << chat_history, list_id, served, responses >>
    /\ UNCHANGED << pipelineVars, cacheVars, helperVars, fileVars, configVars >>

\* chat_history.append, line 862: the global is read first; the list it names
\* is the one the turn goes to
ChatLoad(t) ==
    /\ threads[t].op = "chat"
    /\ threads[t].pc = "load"
    /\ threads' = [threads EXCEPT ![t].pc = "append", ![t].list_ref = list_id]
    /\ UNCHANGED << chat_history, list_id, served, backend_requests, responses >>
    /\ UNCHANGED << pipelineVars, cacheVars, helperVars, fileVars, configVars >>

\* the append itself and the response, lines 862-889: a turn appended to a
\* list the global no longer names is not in the log
ChatAppend(t) ==
    /\ threads[t].op = "chat"
    /\ threads[t].pc = "append"
    /\ chat_history' =
          IF threads[t].list_ref = list_id
          THEN Append(chat_history,
                      ChatEntry(threads[t].request, threads[t].conversation_id,
                                threads[t].message, threads[t].processing_mode))
          ELSE chat_history
    /\ responses' = responses \cup {Response(threads[t].request, "chat", 200, 0)}
    /\ threads' = [threads EXCEPT ![t] = IdleThread]
    /\ UNCHANGED << list_id, served, backend_requests >>
    /\ UNCHANGED << pipelineVars, cacheVars, helperVars, fileVars, configVars >>

\* clear_chat_history up to the count, lines 929-938 and 949
ClearRequest(t) ==
    /\ t = FreeThread
    /\ served < MaxRequests
    /\ served' = served + 1
    /\ \E conversation_filter \in ClearConversationIds :
          threads' = [threads EXCEPT ![t] =
              [IdleThread EXCEPT !.op = "clear",
                  !.pc = IF FilterGiven(conversation_filter) THEN "filter" ELSE "assign",
                  !.request = served + 1,
                  !.conversation_filter = conversation_filter,
                  !.original_count = Len(chat_history)]]
    /\ UNCHANGED << chat_history, list_id, backend_requests, responses >>
    /\ UNCHANGED << pipelineVars, cacheVars, helperVars, fileVars, configVars >>

\* the list comprehension, line 939
ClearFilter(t) ==
    /\ threads[t].op = "clear"
    /\ threads[t].pc = "filter"
    /\ threads' = [threads EXCEPT ![t].pc = "assign",
          ![t].filtered = OtherConversations(chat_history, threads[t].conversation_filter[1])]
    /\ UNCHANGED << chat_history, list_id, served, backend_requests, responses >>
    /\ UNCHANGED << pipelineVars, cacheVars, helperVars, fileVars, configVars >>

\* the global is bound to the new list, lines 939 and 950; the unfiltered
\* clear answers with the count it took, lines 953-956
ClearAssign(t) ==
    /\ threads[t].op = "clear"
    /\ threads[t].pc = "assign"
    /\ list_id' = list_id + 1
    /\ IF FilterGiven(threads[t].conversation_filter)
       THEN /\ chat_history' = threads[t].filtered
            /\ threads' = [threads EXCEPT ![t].pc = "respond"]
            /\ UNCHANGED responses
       ELSE /\ chat_history' = <<>>
            /\ responses' = responses \cup
                   {Response(threads[t].request, "clear", 200, threads[t].original_count)}
            /\ threads' = [threads EXCEPT ![t] = IdleThread]
    /\ UNCHANGED << served, backend_requests >>
    /\ UNCHANGED << pipelineVars, cacheVars, helperVars, fileVars, configVars >>

\* cleared_count of the filtered clear and its response, lines 940-946
ClearRespond(t) ==
    /\ threads[t].op = "clear"
    /\ threads[t].pc = "respond"
    /\ responses' = responses \cup
           {Response(threads[t].request, "clear", 200,
                     threads[t].original_count - Len(chat_history))}
    /\ threads' = [threads EXCEPT ![t] = IdleThread]
    /\ UNCHANGED << chat_history, list_id, served, backend_requests >>
    /\ UNCHANGED << pipelineVars, cacheVars, helperVars, fileVars, configVars >>

ChatNext ==
    \E t \in ThreadIds :
        \/ ChatRequest(t)
        \/ ChatValidate(t)
        \/ ChatProcess(t)
        \/ ChatLoad(t)
        \/ ChatAppend(t)
        \/ ClearRequest(t)
        \/ ClearFilter(t)
        \/ ClearAssign(t)
        \/ ClearRespond(t)

\* the chat endpoints under concurrent requests
ChatSpec == Init /\ [][ChatNext]_vars

--------------------------------------------------------------------------
(* Properties of the chat endpoints *)

\* the thread t finishes the step it is at
Leaves(t, op, at) ==
    /\ threads[t].op = op
    /\ threads[t].pc = at
    /\ threads'[t] # threads[t]

\* C21: a chat request with a non-empty message appends exactly one turn,
\* tagged with its conversation_id, at the end of the log if and only if the
\* query was processed successfully (processing_mode is not 'error'), and no
\* step of a chat request modifies, reorders or removes an earlier turn
C21_AppendIffSuccessful ==
    [][\A t \in ThreadIds :
          /\ (threads[t].op = "chat" /\ threads'[t] # threads[t]) =>
                 IsPrefix(chat_history, chat_history')
          /\ Leaves(t, "chat", "append") =>
                 IF threads[t].processing_mode # "error"
                 THEN /\ Len(chat_history') = Len(chat_history) + 1
                      /\ chat_history'[Len(chat_history')].request = threads[t].request
                      /\ chat_history'[Len(chat_history')].conversation_id =
                             threads[t].conversation_id
                 ELSE chat_history' = chat_history]_vars

\* the turn is in the log
InLog(entry, log) == \E j \in 1..Len(log) : log[j] = entry

\* C22: writes to the conversation history are serialized: under every
\* interleaving of chat and clear requests a turn leaves the log only in the
\* step of a clear request that targets all history or the turn's
\* conversation, and the turn of a chat request that completes is in the log
C22_SerializedWrites ==
    [][/\ \A i \in 1..Len(chat_history) :
             ~InLog(chat_history[i], chat_history') =>
                 \E t \in ThreadIds :
                     /\ Leaves(t, "clear", "assign")
                     /\ \/ ~FilterGiven(threads[t].conversation_filter)
                        \/ threads[t].conversation_filter[1] =
                               chat_history[i].conversation_id
       /\ \A t \in ThreadIds :
             Leaves(t, "chat", "append") =>
                 \E j \in 1..Len(chat_history') :
                     chat_history'[j].request = threads[t].request]_vars

\* the response to request r
ResponseTo(r, sent) == CHOOSE resp \in sent : resp.request = r

\* C26: clearing with a conversation_id removes exactly the turns of that
\* conversation, leaves every other turn in place and in order and reports
\* the number of turns removed; clearing without one empties the log and
\* reports its previous length
C26_ClearRemovesConversation ==
    [][\A t \in ThreadIds :
          /\ Leaves(t, "clear", "assign") =>
                 IF threads[t].conversation_filter # <<>>
                 THEN /\ chat_history' =
                             SelectSeq(chat_history,
                                 LAMBDA h : h.conversation_id #
                                                threads[t].conversation_filter[1])
                      /\ threads'[t].op = "clear" =>
                             threads[t].original_count - Len(chat_history') =
                                 Len(chat_history) - Len(chat_history')
                 ELSE /\ chat_history' = <<>>
                      /\ ResponseTo(threads[t].request, responses').messages_cleared =
                             Len(chat_history)
          /\ Leaves(t, "clear", "respond") =>
                 ResponseTo(threads[t].request, responses').messages_cleared =
                     threads[t].original_count - Len(threads[t].filtered)]_vars

\* every character of the text is white space
Blank(s) == \A i \in 1..Len(s) : s[i] \in {" ", "\n", "\t", "\r"}

--------------------------------------------------------------------------
(* DELETE /api/files/<filename> *)

\* the most delete requests handled
MaxDeletes == 3

\* the filenames of the requests: three with a system keyword in some
\* spelling, two without
DeleteNames == { <<"c","o","n","f","i","g",".","j","s","o","n">>, <<"A","D","M","I","N",".","m","d">>, <<"M","y","D","e","f","a","u","l","t","s",".","t","x","t">>, <<"n","o","t","e","s",".","t","x","t">>, <<"a",".","t","x","t">> }

\* a variant of is_system_file that compares the name as it is spelled
is_system_file_as_spelled(filename) ==
    /\ filename # <<>>
    /\ \E keyword \in SYSTEM_FILES : Contains(filename, keyword)

\* is_system_file, lines 962-970, for the string the route hands over
is_system_file(filename) ==
    /\ filename # <<>>
    /\ \E keyword \in SYSTEM_FILES : Contains(Lower(filename), keyword)

\* what the file store does with a delete request: it answers 200, answers
\* with an error status, or the request raises
DeleteOutcomes == {"ok", "http_error", "unreachable"}

\* delete_file, lines 1073-1106
DeleteFile ==
    /\ Len(file_responses) < MaxDeletes
    /\ \E filename \in DeleteNames, outcome \in DeleteOutcomes :
          IF is_system_file(filename)
          THEN /\ file_responses' =
                      Append(file_responses, [filename |-> filename, status |-> 403])
               /\ UNCHANGED delete_requests
          ELSE /\ delete_requests' = Append(delete_requests, filename)
               /\ file_responses' =
                      Append(file_responses,
                             [filename |-> filename,
                              status |-> IF outcome = "ok" THEN 200 ELSE 500])
    /\ UNCHANGED << pipelineVars, cacheVars, helperVars, chatVars, configVars >>

FileNext == DeleteFile

\* the file endpoint
FileSpec == Init /\ [][FileNext]_vars

\* the name holds one of the five keywords in any spelling of upper and
\* lower case
NamesSystemFile(filename) ==
    \E keyword \in { <<"a","d","m","i","n">>, <<"s","y","s","t","e","m">>, <<"d","e","f","a","u","l","t">>, <<"c","o","n","f","i","g">>, <<"h","a","a","g">> } :
        \E i \in 1..(Len(filename) - Len(keyword) + 1) :
            \A k \in 1..Len(keyword) : LowerChar(filename[i + k - 1]) = keyword[k]

\* C25: a delete of a file whose name holds a system keyword, in any case,
\* is refused with 403 and sends nothing to the file store; a delete of any
\* other file sends exactly one delete request, for that file
C25_SystemFilesNeverDeleted ==
    /\ \A i \in 1..Len(file_responses) :
          NamesSystemFile(file_responses[i].filename) <=> file_responses[i].status = 403
    /\ delete_requests =
          LET forwarded == SelectSeq(file_responses, LAMBDA r : r.status # 403)
          IN  [i \in 1..Len(forwarded) |-> forwarded[i].filename]
    /\ \A i \in 1..Len(delete_requests) : ~NamesSystemFile(delete_requests[i])

\* a delete of ADMIN.md was refused after a delete of notes.txt was forwarded
C25_Witness ==
    /\ Len(file_responses) = 2
    /\ file_responses[1] = [filename |-> <<"n","o","t","e","s",".","t","x","t">>, status |-> 200]
    /\ file_responses[2] = [filename |-> <<"A","D","M","I","N",".","m","d">>, status |-> 403]
    /\ delete_requests = << <<"n","o","t","e","s",".","t","x","t">> >>

--------------------------------------------------------------------------
(* The saved configurations: POST /api/saved-configs and                   *)
(* DELETE /api/saved-configs/<id>, handled by the same threads without a   *)
(* lock                                                                    *)

\* the longest name accepted, line 1310
MaxNameLength == 50

\* the name of a create request: missing, blank, two spellings of one name
\* (one with a space to strip) and a name of 51 characters
ConfigNames == { <<>>, << <<" ">> >>, << <<"a">> >>, << <<"A"," ">> >>, << <<"n","n","n","n","n","n","n","n","n","n","n","n","n","n","n","n","n","n","n","n","n","n","n","n","n","n","n","n","n","n","n","n","n","n","n","n","n","n","n","n","n","n","n","n","n","n","n","n","n","n","n">> >> }

\* the ids a delete request names
ConfigIds == 1..2

\* the response to a configuration request: its status and, for a create
\* that succeeded, the id of the new configuration (else 0)
ConfigResponse(request, op, status, id) ==
    [request |-> request, op |-> op, status |-> status, id |-> id]

\* a thread that handles a configuration request
ConfigThread(op, at, request, name, has_params, id, index) ==
    [op |-> op, pc |-> at, request |-> request, name |-> name,
     has_params |-> has_params, id |-> id, index |-> index]

\* the duplicate test of line 1314
NameExists(name) ==
    \E i \in 1..Len(saved_configurations) :
        Lower(saved_configurations[i].name) = Lower(name)

\* create_saved_configuration reads the request, lines 1295-1304
CreateRequest(t) ==
    /\ t = FreeThread
    /\ served < MaxRequests
    /\ served' = served + 1
    /\ \E name \in ConfigNames, has_params \in BOOLEAN :
          threads' = [threads EXCEPT ![t] =
              ConfigThread("create", "validate", served + 1, Strip(Get(name, <<>>)),
                           has_params, 0, 0)]
    /\ UNCHANGED << chat_history, list_id, backend_requests, responses >>
    /\ UNCHANGED << pipelineVars, cacheVars, helperVars, fileVars, configVars >>

\* the four tests, lines 1306-1320: each answers with 400
CreateValidate(t) ==
    /\ threads[t].op = "create"
    /\ threads[t].pc = "validate"
    /\ IF \/ threads[t].name = <<>>
          \/ Len(threads[t].name) > MaxNameLength
          \/ NameExists(threads[t].name)
          \/ ~threads[t].has_params
       THEN /\ responses' = responses \cup
                   {ConfigResponse(threads[t].request, "create", 400, 0)}
            /\ threads' = [threads EXCEPT ![t] = IdleThread]
       ELSE /\ threads' = [threads EXCEPT ![t].pc = "build"]
            /\ UNCHANGED responses
    /\ UNCHANGED << chat_history, list_id, served, backend_requests >>
    /\ UNCHANGED << pipelineVars, cacheVars, helperVars, fileVars, configVars >>

\* new_config, lines 1322-1331: the id is the counter as it is now
CreateBuild(t) ==
    /\ threads[t].op = "create"
    /\ threads[t].pc = "build"
    /\ threads' = [threads EXCEPT ![t].pc = "append", ![t].id = config_id_counter]
    /\ UNCHANGED << chat_history, list_id, served, backend_requests, responses >>
    /\ UNCHANGED << pipelineVars, cacheVars, helperVars, fileVars, configVars >>

\* saved_configurations.append(new_config), line 1333
CreateAppend(t) ==
    /\ threads[t].op = "create"
    /\ threads[t].pc = "append"
    /\ saved_configurations' =
          Append(saved_configurations, [id |-> threads[t].id, name |-> threads[t].name])
    /\ threads' = [threads EXCEPT ![t].pc = "load"]
    /\ UNCHANGED << config_id_counter, chat_history, list_id, served, backend_requests,
                    responses >>
    /\ UNCHANGED << pipelineVars, cacheVars, helperVars, fileVars >>

\* config_id_counter += 1, line 1334: the global is read ...
CreateLoad(t) ==
    /\ threads[t].op = "create"
    /\ threads[t].pc = "load"
    /\ threads' = [threads EXCEPT ![t].pc = "store", ![t].index = config_id_counter]
    /\ UNCHANGED << chat_history, list_id, served, backend_requests, responses >>
    /\ UNCHANGED << pipelineVars, cacheVars, helperVars, fileVars, configVars >>

\* ... and written, one more than the value read; the response, lines 1336-1341
CreateStore(t) ==
    /\ threads[t].op = "create"
    /\ threads[t].pc = "store"
    /\ config_id_counter' = threads[t].index + 1
    /\ responses' = responses \cup
           {ConfigResponse(threads[t].request, "create", 200, threads[t].id)}
    /\ threads' = [threads EXCEPT ![t] = IdleThread]
    /\ UNCHANGED << saved_configurations, chat_history, list_id, served, backend_requests >>
    /\ UNCHANGED << pipelineVars, cacheVars, helperVars, fileVars >>

\* delete_saved_configuration reads the id of the route, lines 1347-1350
DeleteConfigRequest(t) ==
    /\ t = FreeThread
    /\ served < MaxRequests
    /\ served' = served + 1
    /\ \E config_id \in ConfigIds :
          threads' = [threads EXCEPT ![t] =
              ConfigThread("delete", "find", served + 1, <<>>, FALSE, config_id, 0)]
    /\ UNCHANGED << chat_history, list_id, backend_requests, responses >>
    /\ UNCHANGED << pipelineVars, cacheVars, helperVars, fileVars, configVars >>

\* the search loop, lines 1353-1363: the first configuration with the id, or 404
DeleteConfigFind(t) ==
    /\ threads[t].op = "delete"
    /\ threads[t].pc = "find"
    /\ LET found == {i \in 1..Len(saved_configurations) :
                        saved_configurations[i].id = threads[t].id}
       IN  IF found = {}
           THEN /\ responses' = responses \cup
                       {ConfigResponse(threads[t].request, "delete", 404, 0)}
                /\ threads' = [threads EXCEPT ![t] = IdleThread]
           ELSE /\ threads' = [threads EXCEPT ![t].pc = "pop",
                       ![t].index = CHOOSE i \in found : \A j \in found : i <= j]
                /\ UNCHANGED responses
    /\ UNCHANGED << chat_history, list_id, served, backend_requests >>
    /\ UNCHANGED << pipelineVars, cacheVars, helperVars, fileVars, configVars >>

\* saved_configurations.pop(config_index), lines 1365-1377: the entry now at
\* that index is removed; an index past the end raises IndexError (500)
DeleteConfigPop(t) ==
    /\ threads[t].op = "delete"
    /\ threads[t].pc = "pop"
    /\ IF threads[t].index <= Len(saved_configurations)
       THEN /\ saved_configurations' =
                   SubSeq(saved_configurations, 1, threads[t].index - 1) \o
                   SubSeq(saved_configurations, threads[t].index + 1,
                          Len(saved_configurations))
            /\ responses' = responses \cup
                   {ConfigResponse(threads[t].request, "delete", 200, 0)}
       ELSE /\ UNCHANGED saved_configurations
            /\ responses' = responses \cup
                   {ConfigResponse(threads[t].request, "delete", 500, 0)}
    /\ threads' = [threads EXCEPT ![t] = IdleThread]
    /\ UNCHANGED << config_id_counter, chat_history, list_id, served, backend_requests >>
    /\ UNCHANGED << pipelineVars, cacheVars, helperVars, fileVars >>

ConfigNext ==
    \E t \in ThreadIds :
        \/ CreateRequest(t)
        \/ CreateValidate(t)
        \/ CreateBuild(t)
        \/ CreateAppend(t)
        \/ CreateLoad(t)
        \/ CreateStore(t)
        \/ DeleteConfigRequest(t)
        \/ DeleteConfigFind(t)
        \/ DeleteConfigPop(t)

\* the saved configurations under concurrent requests
ConfigSpec == Init /\ [][ConfigNext]_vars

\* C28: no two stored configurations have names that are equal when case is
\* ignored, and a create answered with 400 (empty name, name of more than
\* 50 characters, duplicate name, missing parameter) leaves the stored
\* configurations and the id counter as they were
C28_UniqueNames ==
    /\ [](\A i, j \in 1..Len(saved_configurations) :
             i # j => \E k \in 1..Len(saved_configurations[i].name) :
                         \/ k > Len(saved_configurations[j].name)
                         \/ Len(saved_configurations[j].name) > Len(saved_configurations[i].name)
                         \/ LowerChar(saved_configurations[i].name[k]) #
                                LowerChar(saved_configurations[j].name[k]))
    /\ [][(\E resp \in responses' \ responses : resp.op = "create" /\ resp.status = 400)
              => UNCHANGED configVars]_vars

\* C29: the ids of saved configurations are unique and never reused under
\* every interleaving of create and delete requests: the stored ids differ,
\* and an id given to a new configuration is greater than every id stored
\* or reported before
C29_UniqueIds ==
    /\ [](\A i, j \in 1..Len(saved_configurations) :
             i # j => saved_configurations[i].id # saved_configurations[j].id)
    /\ [][\A t \in ThreadIds :
             (threads[t].op = "create" /\ threads[t].pc = "append" /\ threads'[t].pc = "load") =>
                 /\ \A i \in 1..Len(saved_configurations) :
                        saved_configurations[i].id < threads[t].id
                 /\ \A resp \in responses :
                        resp.op = "create" => resp.id < threads[t].id]_vars

==========================================================================
